---- MODULE Spec2Model ----
(***************************************************************************)
(* Verification model of the declarative UI control framework:             *)
(*   - the Reactive Store      (client/src/core/state-manager.js)          *)
(*   - the Control lifecycle   (client/src/controls/base-control.js)       *)
(*   - the Event Registry      (client/src/core/event-handler.js)          *)
(*   - the Data Manager        (client/src/core/data-manager.js)           *)
(* JavaScript is single-threaded and every operation modelled here is      *)
(* synchronous, so each API call is one atomic action.                     *)
(***************************************************************************)
EXTENDS Integers, Sequences, FiniteSets, TLC

(***************************************************************************)
(* Bounds of the model and input domains                                   *)
(***************************************************************************)
\* number of store mutations recorded in one run
MaxOps == 2
\* total number of live subscriptions (per-key and global together)
MaxRegs == 2

\* number of handlers registered with Control.on at one time
MaxHandlers == 2
\* EventHandler.on is called while EventHandler.uidEvent is at most this
MaxUid == 2
\* the renderings the render cache holds at most
MaxCache == 2
\* the largest value Math.floor(Math.random() * 1000) takes here
MaxRandom == 1
\* the random numbers one call of DomUtilities.getUID can draw
MaxDraws == 4
\* twice the largest number of rows or of columns of a grid layout
MaxTwice == 4
\* the children a grid layout is given
MaxChildren == 3

Keys == {"k1", "k2"}
Vals == {"a", "b"}
\* callback functions handed to subscribe / subscribeGlobal
Subs == {"s1", "s2"}
\* JavaScript's undefined and null
Undef == "undefined"
None == "none"

(***************************************************************************)
(* The store: StateManager's static fields, plus the observation of what   *)
(* the most recent API call did (the calls it made to callbacks).          *)
(***************************************************************************)
VARIABLES
    state,            \* StateManager.state: insertion-ordered <<[key, value]>>
    listeners,        \* StateManager.listeners: key -> array of callbacks
    globalListeners,  \* StateManager.globalListeners: array of callbacks
    history,          \* StateManager.history
    last,             \* the most recent API call: its name, arguments, result
    pre,              \* StateManager.state as it was when that call began
    calls,            \* what that call did, in order: history appends and
                      \* callback invocations with their arguments
    exported,         \* the object a caller got from exportState() and holds
    computed          \* the closure of a value made by computed(): its
                      \* dependencies, currentValue, isInitialized, and how
                      \* often the last call notified its own subscribers

storeVars == <<state, listeners, globalListeners, history, last, pre, calls,
               exported, computed>>

(***************************************************************************)
(* Controls, their nodes, the Event Registry and the Data Manager          *)
(***************************************************************************)
VARIABLES
    ctl,            \* the Control instances, in order of construction
    nodes,          \* the DOM elements created by createElement
    eventRegistry,  \* EventHandler.eventRegistry: uid -> event -> selector -> handlers
    uidEvent,       \* EventHandler.uidEvent, the uid counter
    regNode,        \* for every uid handed out, the element that received it
    elementMap,     \* DataManager.elementMap: element -> control stored under 'control'
    destroyed,      \* the controls on which destroy() has run to completion
    clast,          \* the most recent call on a control, what held when it
                    \* began, and whether it threw
    trace           \* what that call did, in order

ctlVars == <<ctl, nodes, eventRegistry, uidEvent, regNode, elementMap, destroyed,
             clast, trace>>

(***************************************************************************)
(* The Control Factory: its registry and the observation of the most       *)
(* recent call on it                                                       *)
(***************************************************************************)
VARIABLES
    controlTypes,   \* ControlFactory.controlTypes: type -> the class its provider returns
    flast,          \* the most recent ControlFactory call, its argument and result
    now,            \* what Date.now() returns
    random          \* what Math.floor(Math.random() * 1000) returns next

facVars == <<controlTypes, flast, now, random>>

(***************************************************************************)
(* The Context Renderer                                                    *)
(***************************************************************************)
VARIABLES
    context,        \* ContextRenderer.context: insertion-ordered <<[key, value]>>
    renderCache,    \* ContextRenderer.renderCache: insertion-ordered <<[key, value]>>
    cacheEnabled,   \* ContextRenderer.cacheEnabled
    rlast,          \* the most recent ContextRenderer call, its arguments and result
    watchers,       \* ContextRenderer.watchers, in insertion order
    notified        \* the watcher callbacks that call ran, in order, each with
                    \* its arguments and the cache it could see

ctxVars == <<context, renderCache, cacheEnabled, rlast, watchers, notified>>

(***************************************************************************)
(* DOM event listeners                                                     *)
(***************************************************************************)
VARIABLES
    domListeners,   \* element -> the listeners addEventListener gave it, in order
    wrappers,       \* the handler functions EventHandler.on built, by number
    elast           \* the most recent dispatch: the element, the event type and
                    \* the functions invoked, in order

domVars == <<domListeners, wrappers, elast>>

vars == <<storeVars, ctlVars, facVars, ctxVars, domVars>>

maxHistorySize == 50

(***************************************************************************)
(* Plain JavaScript objects: own keys in insertion order                   *)
(***************************************************************************)
Entry(k, v) == [key |-> k, value |-> v]

\* Object.keys(obj)
ObjectKeys(obj) == [i \in 1..Len(obj) |-> obj[i].key]

\* obj.hasOwnProperty(k)
hasKey(obj, k) == \E i \in 1..Len(obj) : obj[i].key = k

\* obj[k]
Get(obj, k) ==
    IF hasKey(obj, k)
    THEN obj[CHOOSE i \in 1..Len(obj) : obj[i].key = k].value
    ELSE Undef

\* obj[k] = v
Put(obj, k, v) ==
    IF hasKey(obj, k)
    THEN [i \in 1..Len(obj) |-> IF obj[i].key = k THEN Entry(k, v) ELSE obj[i]]
    ELSE Append(obj, Entry(k, v))

\* delete obj[k]
Delete(obj, k) == SelectSeq(obj, LAMBDA e : e.key # k)

Range(s) == {s[i] : i \in 1..Len(s)}

\* array.indexOf(x), 1-based; 0 when absent
IndexOf(s, x) ==
    IF x \in Range(s)
    THEN CHOOSE i \in 1..Len(s) : s[i] = x /\ \A j \in 1..(i - 1) : s[j] # x
    ELSE 0

\* array.splice(i, 1)
Splice(s, i) == [j \in 1..(Len(s) - 1) |-> IF j < i THEN s[j] ELSE s[j + 1]]

\* new Set([...a, ...b]) iterated in insertion order
RECURSIVE Dedup(_)
Dedup(s) ==
    IF s = <<>> THEN <<>>
    ELSE LET front == Dedup(SubSeq(s, 1, Len(s) - 1))
             x == s[Len(s)]
         IN IF x \in Range(front) THEN front ELSE Append(front, x)

\* the objects handed to updateState, importState and restoreSnapshot
StateInputs ==
    { <<Entry("k1", "a")>>,
      <<Entry("k2", "b"), Entry("k1", "a")>> }

(***************************************************************************)
(* Records of what a call did                                              *)
(***************************************************************************)
HistoryEvent == [kind |-> "history", cb |-> None, type |-> None,
                 key |-> None, new |-> Undef, old |-> Undef]

KeyCall(cb, k, new, old) ==
    [kind |-> "key", cb |-> cb, type |-> None, key |-> k, new |-> new, old |-> old]

GlobalCall(cb, type, k, new, old) ==
    [kind |-> "global", cb |-> cb, type |-> type, key |-> k, new |-> new, old |-> old]

HistoryEntry(type, k, old, new, oldState, newState, changes) ==
    [type |-> type, key |-> k, oldValue |-> old, newValue |-> new,
     oldState |-> oldState, newState |-> newState, changes |-> changes]

Call(op, k, v, input, ret) ==
    [op |-> op, key |-> k, value |-> v, input |-> input, ret |-> ret]

(***************************************************************************)
(* StateManager                                                            *)
(***************************************************************************)
\* addToHistory(entry): push, then shift when over capacity
\* a log that keeps its oldest entries and drops the new one when it is full
addToHistory_dropNewest(h, entry) ==
    IF Len(h) >= maxHistorySize THEN h ELSE Append(h, entry)

addToHistory(h, entry) ==
    LET pushed == Append(h, entry)
    IN IF Len(pushed) > maxHistorySize THEN Tail(pushed) ELSE pushed

\* notifyStateChange with the old value read after the assignment
notifyStateChange_staleOld(k, value, oldValue) ==
    [i \in 1..Len(listeners[k]) |-> KeyCall(listeners[k][i], k, value, value)]

\* notifyStateChange(key, value, oldValue): the callbacks it invokes, in order.
\* A callback that throws is caught, so the loop always runs to the end.
\* a notification that goes on to the global subscribers
notifyStateChange_global(k, value, oldValue) ==
    [i \in 1..Len(listeners[k]) |-> KeyCall(listeners[k][i], k, value, oldValue)]
    \o [i \in 1..Len(globalListeners) |->
           GlobalCall(globalListeners[i], "setState", k, value, oldValue)]

notifyStateChange(k, value, oldValue) ==
    [i \in 1..Len(listeners[k]) |-> KeyCall(listeners[k][i], k, value, oldValue)]

\* notifyGlobalListeners iterating the array backwards
notifyGlobalListeners_reversed(type, k, value, oldValue) ==
    [i \in 1..Len(globalListeners) |->
        GlobalCall(globalListeners[Len(globalListeners) + 1 - i], type, k, value, oldValue)]

\* notifyGlobalListeners(eventData)
notifyGlobalListeners(type, k, value, oldValue) ==
    [i \in 1..Len(globalListeners) |->
        GlobalCall(globalListeners[i], type, k, value, oldValue)]

\* keys.forEach(key => this.notifyStateChange(key, new[key], old[key]))
RECURSIVE notifyEach(_, _, _)
notifyEach(ks, new, old) ==
    IF ks = <<>> THEN <<>>
    ELSE notifyStateChange(Head(ks), Get(new, Head(ks)), Get(old, Head(ks)))
         \o notifyEach(Tail(ks), new, old)

\* the function handed to computed(): here the one that returns its arguments
\* as a tuple, which tells any two argument lists apart
computeFn(depValues) == depValues

\* a computed value not made yet
NoComputed ==
    [live |-> FALSE, deps |-> <<>>, currentValue |-> <<>>, isInitialized |-> FALSE,
     notified |-> 0]

\* compute() of the closure c with the store holding st; notified counts the
\* runs of the loop over c's own subscribers
compute(c, st) ==
    LET newValue == computeFn([i \in 1..Len(c.deps) |-> Get(st, c.deps[i])])
    IN IF ~c.isInitialized \/ newValue # c.currentValue
       THEN [c EXCEPT !.currentValue = newValue, !.isInitialized = TRUE,
                      !.notified = @ + 1]
       ELSE c

\* compute() run once for every call of it among the callback invocations cs
RECURSIVE computeEach(_, _, _)
computeEach(c, cs, st) ==
    IF cs = <<>> THEN c
    ELSE computeEach(IF Head(cs).kind = "key" /\ Head(cs).cb = "compute"
                     THEN compute(c, st) ELSE c,
                     Tail(cs), st)

\* the closure after a call of the store that invoked the callbacks cs; the
\* store has its new content st before the first callback runs
recomputed(cs, st) == computeEach([computed EXCEPT !.notified = 0], cs, st)

Regs == Len(globalListeners) + Len(listeners["k1"]) + Len(listeners["k2"])

\* subscribe(key, callback)
subscribe(k, cb) ==
    /\ Regs < MaxRegs
    /\ listeners' = [listeners EXCEPT ![k] = Append(@, cb)]
    /\ last' = Call("subscribe", None, Undef, <<>>, TRUE)
    /\ calls' = <<>>
    /\ pre' = state
    /\ UNCHANGED <<state, globalListeners, history>>
    /\ UNCHANGED <<exported, computed, ctlVars, facVars, ctxVars, domVars>>

\* the function returned by subscribe(key, callback)
unsubscribe(k, cb) ==
    /\ cb \in Range(listeners[k])
    /\ listeners' = [listeners EXCEPT ![k] = Splice(@, IndexOf(@, cb))]
    /\ last' = Call("unsubscribe", None, Undef, <<>>, TRUE)
    /\ calls' = <<>>
    /\ pre' = state
    /\ UNCHANGED <<state, globalListeners, history>>
    /\ UNCHANGED <<exported, computed, ctlVars, facVars, ctxVars, domVars>>

\* subscribeGlobal(callback)
subscribeGlobal(cb) ==
    /\ Regs < MaxRegs
    /\ globalListeners' = Append(globalListeners, cb)
    /\ last' = Call("subscribeGlobal", None, Undef, <<>>, TRUE)
    /\ calls' = <<>>
    /\ pre' = state
    /\ UNCHANGED <<state, listeners, history>>
    /\ UNCHANGED <<exported, computed, ctlVars, facVars, ctxVars, domVars>>

\* the function returned by subscribeGlobal(callback)
unsubscribeGlobal(cb) ==
    /\ cb \in Range(globalListeners)
    /\ globalListeners' = Splice(globalListeners, IndexOf(globalListeners, cb))
    /\ last' = Call("unsubscribeGlobal", None, Undef, <<>>, TRUE)
    /\ calls' = <<>>
    /\ pre' = state
    /\ UNCHANGED <<state, listeners, history>>
    /\ UNCHANGED <<exported, computed, ctlVars, facVars, ctxVars, domVars>>

\* setState(key, value)
\* setState(key, value), whatever the length of the history
setStateCall(k, v) ==
    LET oldValue == Get(state, k)
    IN /\ state' = Put(state, k, v)
       /\ history' = addToHistory(history,
              HistoryEntry("setState", k, oldValue, v, <<>>, <<>>, <<>>))
       /\ calls' = <<HistoryEvent>>
                   \o notifyStateChange(k, v, oldValue)
                   \o notifyGlobalListeners("setState", k, v, oldValue)
       /\ last' = Call("setState", k, v, <<>>, TRUE)
       /\ pre' = state
       /\ UNCHANGED <<listeners, globalListeners>>
       /\ computed' = recomputed(calls', state')
       /\ UNCHANGED <<exported, ctlVars, facVars, ctxVars, domVars>>

\* setState(key, value) while the history is short
setState(k, v) ==
    /\ Len(history) < MaxOps
    /\ setStateCall(k, v)

\* a subscriber that writes: (value) => { if (value !== 'b')
\* StateManager.setState(key, 'b') }
Writers == {"w1"}
WrittenValue == "b"

\* setState(key, value) and the forEach of notifyStateChange when callbacks
\* may call setState themselves: r is the store and what has been done so
\* far, and a writer's call runs to its end before the next callback of the
\* outer loop is called
RECURSIVE setStateRun(_, _, _)
RECURSIVE notifyRun(_, _, _, _, _)
notifyRun(r, callbacks, k, value, oldValue) ==
    IF callbacks = <<>> THEN r
    ELSE notifyRun(
            IF Head(callbacks) \in Writers /\ value # WrittenValue
            THEN setStateRun(
                    [r EXCEPT !.calls = Append(@, KeyCall(Head(callbacks), k, value, oldValue))],
                    k, WrittenValue)
            ELSE [r EXCEPT !.calls = Append(@, KeyCall(Head(callbacks), k, value, oldValue))],
            Tail(callbacks), k, value, oldValue)

setStateRun(r, k, value) ==
    [notifyRun([state |-> Put(r.state, k, value),
                history |-> addToHistory(r.history,
                               HistoryEntry("setState", k, Get(r.state, k), value,
                                            <<>>, <<>>, <<>>)),
                calls |-> Append(r.calls, HistoryEvent)],
               listeners[k], k, value, Get(r.state, k))
       EXCEPT !.calls = @ \o notifyGlobalListeners("setState", k, value, Get(r.state, k))]

\* setState(key, value) with subscribers that may write
setStateReentrant(k, v) ==
    /\ Len(history) < MaxOps
    /\ LET r == setStateRun([state |-> state, history |-> history, calls |-> <<>>], k, v)
       IN /\ state' = r.state
          /\ history' = r.history
          /\ calls' = r.calls
    /\ last' = Call("setState", k, v, <<>>, TRUE)
    /\ pre' = state
    /\ computed' = recomputed(calls', state')
    /\ UNCHANGED <<listeners, globalListeners>>
    /\ UNCHANGED <<exported, ctlVars, facVars, ctxVars, domVars>>

\* a subscriber that calls the unsubscribe function it got from subscribe /
\* subscribeGlobal when it is notified
Unsubscribers == {"u1"}

\* callbacks.forEach(callback => callback(...)) over the array itself, index
\* by index, when a callback may splice itself out of the array: r holds the
\* array and the callbacks called so far, i the index forEach is at
RECURSIVE forEachRun(_, _)
forEachRun(r, i) ==
    IF i > Len(r.callbacks) THEN r
    ELSE LET callback == r.callbacks[i]
         IN forEachRun([callbacks |-> IF callback \in Unsubscribers
                                      THEN Splice(r.callbacks, IndexOf(r.callbacks, callback))
                                      ELSE r.callbacks,
                        called |-> Append(r.called, callback)],
                       i + 1)

\* setState(key, value) with subscribers that may unsubscribe themselves
setStateUnsubscribing(k, v) ==
    LET oldValue == Get(state, k)
        keyRun == forEachRun([callbacks |-> listeners[k], called |-> <<>>], 1)
        globalRun == forEachRun([callbacks |-> globalListeners, called |-> <<>>], 1)
    IN /\ Len(history) < MaxOps
       /\ state' = Put(state, k, v)
       /\ history' = addToHistory(history,
              HistoryEntry("setState", k, oldValue, v, <<>>, <<>>, <<>>))
       /\ calls' = <<HistoryEvent>>
                   \o [i \in 1..Len(keyRun.called) |->
                          KeyCall(keyRun.called[i], k, v, oldValue)]
                   \o [i \in 1..Len(globalRun.called) |->
                          GlobalCall(globalRun.called[i], "setState", k, v, oldValue)]
       /\ listeners' = [listeners EXCEPT ![k] = keyRun.callbacks]
       /\ globalListeners' = globalRun.callbacks
       /\ last' = Call("setState", k, v, <<>>, TRUE)
       /\ pre' = state
       /\ computed' = recomputed(calls', state')
       /\ UNCHANGED <<exported, ctlVars, facVars, ctxVars, domVars>>

\* removeState(key)
removeState(k) ==
    LET oldValue == Get(state, k)
    IN /\ Len(history) < MaxOps
       /\ state' = Delete(state, k)
       /\ history' = addToHistory(history,
              HistoryEntry("removeState", k, oldValue, Undef, <<>>, <<>>, <<>>))
       /\ calls' = <<HistoryEvent>>
                   \o notifyStateChange(k, Undef, oldValue)
                   \o notifyGlobalListeners("removeState", k, Undef, oldValue)
       /\ last' = Call("removeState", k, Undef, <<>>, TRUE)
       /\ pre' = state
       /\ UNCHANGED <<listeners, globalListeners>>
       /\ computed' = recomputed(calls', state')
       /\ UNCHANGED <<exported, ctlVars, facVars, ctxVars, domVars>>

\* clearState()
clearState ==
    LET oldState == state
    IN /\ Len(history) < MaxOps
       /\ state' = <<>>
       /\ history' = addToHistory(history,
              HistoryEntry("clearState", None, Undef, Undef, oldState, <<>>, <<>>))
       /\ calls' = <<HistoryEvent>>
                   \o notifyEach(ObjectKeys(oldState), <<>>, oldState)
                   \o notifyGlobalListeners("clearState", None, Undef, Undef)
       /\ last' = Call("clearState", None, Undef, <<>>, TRUE)
       /\ pre' = state
       /\ UNCHANGED <<listeners, globalListeners>>
       /\ computed' = recomputed(calls', state')
       /\ UNCHANGED <<exported, ctlVars, facVars, ctxVars, domVars>>

\* the changes array built by updateState: the keys of updates whose value
\* differs from the stored one, in the order of Object.keys(updates)
changesOf(updates) ==
    SelectSeq(updates, LAMBDA e : Get(state, e.key) # e.value)

RECURSIVE PutAll(_, _)
PutAll(obj, es) ==
    IF es = <<>> THEN obj
    ELSE PutAll(Put(obj, Head(es).key, Head(es).value), Tail(es))

\* updateState(updates)
updateState(updates) ==
    LET changes == changesOf(updates)
        newState == PutAll(state, changes)
    IN /\ Len(history) < MaxOps
       /\ state' = newState
       /\ IF Len(changes) > 0
          THEN /\ history' = addToHistory(history,
                      HistoryEntry("updateState", None, Undef, Undef, <<>>, <<>>, changes))
               /\ calls' = <<HistoryEvent>>
                           \o notifyEach(ObjectKeys(changes), newState, state)
                           \o notifyGlobalListeners("updateState", None, Undef, Undef)
          ELSE /\ history' = history
               /\ calls' = <<>>
       /\ last' = Call("updateState", None, Undef, updates, TRUE)
       /\ pre' = state
       /\ UNCHANGED <<listeners, globalListeners>>
       /\ computed' = recomputed(calls', state')
       /\ UNCHANGED <<exported, ctlVars, facVars, ctxVars, domVars>>

\* importState assigning the imported keys over the state it finds
importState_merge(input) ==
    LET oldState == state
    IN /\ Len(history) < MaxOps
       /\ state' = PutAll(oldState, input)
       /\ history' = addToHistory(history,
              HistoryEntry("importState", None, Undef, Undef, oldState, input, <<>>))
       /\ calls' = <<HistoryEvent>>
                   \o notifyEach(ObjectKeys(input), input, oldState)
                   \o notifyGlobalListeners("importState", None, Undef, Undef)
       /\ last' = Call("importState", None, Undef, input, TRUE)
       /\ pre' = state
       /\ computed' = recomputed(calls', state')
       /\ UNCHANGED <<listeners, globalListeners>>
       /\ UNCHANGED <<exported, ctlVars, facVars, ctxVars, domVars>>

\* importState(exportedData), exportedData = {state: input, ...}
importState(input) ==
    LET oldState == state
    IN /\ Len(history) < MaxOps
       /\ state' = input
       /\ history' = addToHistory(history,
              HistoryEntry("importState", None, Undef, Undef, oldState, input, <<>>))
       /\ calls' = <<HistoryEvent>>
                   \o notifyEach(ObjectKeys(input), input, oldState)
                   \o notifyGlobalListeners("importState", None, Undef, Undef)
       /\ last' = Call("importState", None, Undef, input, TRUE)
       /\ pre' = state
       /\ UNCHANGED <<listeners, globalListeners>>
       /\ computed' = recomputed(calls', state')
       /\ UNCHANGED <<exported, ctlVars, facVars, ctxVars, domVars>>

\* restoreSnapshot notifying the keys of the snapshot only
restoreSnapshot_newKeysOnly(input) ==
    LET oldState == state
    IN /\ Len(history) < MaxOps
       /\ state' = input
       /\ history' = addToHistory(history,
              HistoryEntry("restoreSnapshot", None, Undef, Undef, oldState, input, <<>>))
       /\ calls' = <<HistoryEvent>>
                   \o notifyEach(ObjectKeys(input), input, oldState)
                   \o notifyGlobalListeners("restoreSnapshot", None, Undef, Undef)
       /\ last' = Call("restoreSnapshot", None, Undef, input, TRUE)
       /\ pre' = state
       /\ UNCHANGED <<listeners, globalListeners>>
       /\ computed' = recomputed(calls', state')
       /\ UNCHANGED <<exported, ctlVars, facVars, ctxVars, domVars>>

\* restoreSnapshot(snapshot), snapshot = {state: input, id: ...}
restoreSnapshot(input) ==
    LET oldState == state
        allKeys == Dedup(ObjectKeys(oldState) \o ObjectKeys(input))
    IN /\ Len(history) < MaxOps
       /\ state' = input
       /\ history' = addToHistory(history,
              HistoryEntry("restoreSnapshot", None, Undef, Undef, oldState, input, <<>>))
       /\ calls' = <<HistoryEvent>>
                   \o notifyEach(allKeys, input, oldState)
                   \o notifyGlobalListeners("restoreSnapshot", None, Undef, Undef)
       /\ last' = Call("restoreSnapshot", None, Undef, input, TRUE)
       /\ pre' = state
       /\ UNCHANGED <<listeners, globalListeners>>
       /\ computed' = recomputed(calls', state')
       /\ UNCHANGED <<exported, ctlVars, facVars, ctxVars, domVars>>

\* importState / restoreSnapshot / updateState called with null or with an
\* object that has no state: rejected before anything is touched
rejected(op) ==
    /\ Len(history) < MaxOps
    /\ last' = Call(op, None, Undef, <<>>, FALSE)
    /\ calls' = <<>>
    /\ pre' = state
    /\ UNCHANGED <<state, listeners, globalListeners, history>>
    /\ UNCHANGED <<exported, computed, ctlVars, facVars, ctxVars, domVars>>

\* clearHistory()
clearHistory ==
    /\ history # <<>>
    /\ history' = <<>>
    /\ last' = Call("clearHistory", None, Undef, <<>>, TRUE)
    /\ calls' = <<>>
    /\ pre' = state
    /\ UNCHANGED <<state, listeners, globalListeners>>
    /\ UNCHANGED <<exported, computed, ctlVars, facVars, ctxVars, domVars>>

\* e = exportState(): the caller holds an object with a copy of the state
exportState ==
    /\ exported' = [held |-> TRUE, state |-> state]
    /\ last' = Call("exportState", None, Undef, <<>>, TRUE)
    /\ calls' = <<>>
    /\ pre' = state
    /\ UNCHANGED <<state, listeners, globalListeners, history>>
    /\ UNCHANGED <<computed, ctlVars, facVars, ctxVars, domVars>>

\* importState(e) with the object e that exportState() returned
importExported ==
    /\ exported.held
    /\ importState(exported.state)

\* the dependency lists handed to computed()
Dependencies == {<<"k1">>, <<"k2">>, <<"k1", "k2">>, <<"k1", "k1">>}

\* dependencies.map(dep => this.subscribe(dep, compute))
RECURSIVE subscribeAll(_, _, _)
subscribeAll(ls, deps, cb) ==
    IF deps = <<>> THEN ls
    ELSE subscribeAll([ls EXCEPT ![Head(deps)] = Append(@, cb)], Tail(deps), cb)

\* a destroy that releases one subscription per distinct dependency
RECURSIVE unsubscribeAll_oncePerKey(_, _, _)
unsubscribeAll_oncePerKey(ls, deps, cb) ==
    IF deps = <<>> THEN ls
    ELSE unsubscribeAll_oncePerKey(
            IF cb \in Range(ls[Head(deps)])
            THEN [ls EXCEPT ![Head(deps)] = Splice(@, IndexOf(@, cb))]
            ELSE ls,
            SelectSeq(Tail(deps), LAMBDA dep : dep # Head(deps)), cb)

\* unsubscribers.forEach(unsubscribe => unsubscribe())
RECURSIVE unsubscribeAll(_, _, _)
unsubscribeAll(ls, deps, cb) ==
    IF deps = <<>> THEN ls
    ELSE unsubscribeAll(
            IF cb \in Range(ls[Head(deps)])
            THEN [ls EXCEPT ![Head(deps)] = Splice(@, IndexOf(@, cb))]
            ELSE ls,
            Tail(deps), cb)

\* c = computed(dependencies, computeFn): compute is subscribed to every
\* dependency and run once; c has no subscriber yet
computedOf(deps) ==
    /\ ~computed.live
    /\ ~computed.isInitialized
    /\ listeners' = subscribeAll(listeners, deps, "compute")
    /\ computed' = [compute([NoComputed EXCEPT !.live = TRUE, !.deps = deps], state)
                      EXCEPT !.notified = 0]
    /\ last' = Call("computed", None, Undef, <<>>, TRUE)
    /\ calls' = <<>>
    /\ pre' = state
    /\ UNCHANGED <<state, globalListeners, history>>
    /\ UNCHANGED <<exported, ctlVars, facVars, ctxVars, domVars>>

\* c.destroy()
destroyComputed ==
    /\ computed.live
    /\ listeners' = unsubscribeAll(listeners, computed.deps, "compute")
    /\ computed' = [computed EXCEPT !.live = FALSE, !.notified = 0]
    /\ last' = Call("destroy", None, Undef, <<>>, TRUE)
    /\ calls' = <<>>
    /\ pre' = state
    /\ UNCHANGED <<state, globalListeners, history>>
    /\ UNCHANGED <<exported, ctlVars, facVars, ctxVars, domVars>>

(***************************************************************************)
(* Control definitions and handlers                                        *)
(***************************************************************************)
\* what a definition carries under props
NoProps == "no props"
EmptyOptions == "options: []"
NullItem == "items: [null]"

\* the values of style.rows and style.columns: a property that is absent, or
\* a number, held as twice its value so that halves can be told from integers
Absent == [present |-> FALSE, twice |-> 0]
Number(twice) == [present |-> TRUE, twice |-> twice]

\* definition.style: not given, or an object with rows and columns
NoStyle == [present |-> FALSE, rows |-> Absent, columns |-> Absent]
Style(rows, columns) == [present |-> TRUE, rows |-> rows, columns |-> columns]

\* a control definition {type, UID, props, children}; defaulted tells whether
\* Validation.applySanitization has filled in the defaults
TypedDef(type, uid, props, children) ==
    [isNull |-> FALSE, type |-> type, UID |-> uid, props |-> props,
     defaulted |-> FALSE, children |-> children, style |-> NoStyle]

\* null handed in where a definition is expected
NullDef ==
    [isNull |-> TRUE, type |-> Undef, UID |-> None, props |-> NoProps,
     defaulted |-> FALSE, children |-> <<>>, style |-> NoStyle]

Def(uid, children) == TypedDef("panel", uid, NoProps, children)

\* the UIDs the definitions use
UIDs == {"b1", "b2", "p", "g"}

\* the definitions handed to ControlFactory.create
TreeDefs ==
    { Def("b1", <<>>),
      Def("p", <<Def("b1", <<>>), Def("b2", <<>>)>>),
      Def("g", <<Def("p", <<Def("b1", <<>>)>>)>>) }

\* definitions that are not all well-formed
OddDefs ==
    { NullDef,
      TypedDef(Undef, "b1", NoProps, <<>>),
      TypedDef("not-a-real-type", "b1", NoProps, <<>>),
      TypedDef("input", "b1", NoProps, <<>>),
      TypedDef("my-control", "b1", NoProps, <<>>),
      TypedDef("dropdown", "b1", EmptyOptions, <<>>),
      TypedDef("dropdown", "b1", NoProps, <<>>),
      TypedDef("panel", "p", NoProps,
               <<TypedDef(Undef, "b1", NoProps, <<>>), Def("b2", <<>>)>>),
      TypedDef("panel", "p", NoProps,
               <<TypedDef("not-a-real-type", "b1", NoProps, <<>>), Def("b2", <<>>)>>),
      TypedDef("cart-grid", "p", NullItem,
               <<TypedDef("dropdown", "b1", NoProps, <<>>)>>) }

Events == {"click", "change"}

\* the functions registered as handlers: one that returns, one that throws an
\* Error object, one that throws null (throw null is legal JavaScript)
Handlers == {"hOk", "hThrowsError", "hThrowsNull"}

NoListeners == [e \in Events |-> <<>>]

\* new ControlClass(definition): every class runs the constructor of Control
NewControl(class, def, parent) ==
    [UID |-> def.UID, type |-> def.type, class |-> class, parent |-> parent,
     childControls |-> <<>>, element |-> 0, eventListeners |-> NoListeners,
     children |-> def.children, state |-> <<>>, defaulted |-> def.defaulted,
     visible |-> TRUE, disabled |-> FALSE]

\* document.createElement('div'): a fresh element, in no document, with no
\* uidEvent, no inline display style, no disabled attribute and no class
NewNode == [parentNode |-> 0, inContainer |-> FALSE, uidEvent |-> 0,
            display |-> "", disabledAttr |-> FALSE, classList |-> {}]

\* getBaseClasses() of the classes
getBaseClasses(class) ==
    CASE class = "GridLayoutControl" -> {"grid-layout-control"}
      [] class = "PanelControl" ->
           {"panel-control", "bg-card", "border", "border-border", "rounded-lg",
            "shadow-sm", "overflow-hidden"}
      [] OTHER -> {"control-base"}

\* createElement() of the control: GridLayoutControl and PanelControl have
\* their own, which look at neither visible nor disabled; the grid layout
\* sets its display style to 'grid'
createElement(control) ==
    LET element == [NewNode EXCEPT !.classList = getBaseClasses(control.class)]
    IN CASE control.class = "GridLayoutControl" -> [element EXCEPT !.display = "grid"]
         [] control.class = "PanelControl" -> element
         [] OTHER ->
              [element EXCEPT
                 !.display = IF ~control.visible THEN "none" ELSE @,
                 !.disabledAttr = control.disabled,
                 !.classList = IF control.disabled
                                THEN @ \cup {"opacity-50", "pointer-events-none"}
                                ELSE @]

\* show(), hide(), enable() and disable() of the control c
show(w, c) ==
    LET w1 == [w EXCEPT !.ctl[c].visible = TRUE]
    IN IF w.ctl[c].element # 0
       THEN [w1 EXCEPT !.nodes[w.ctl[c].element].display = ""]
       ELSE w1

hide(w, c) ==
    LET w1 == [w EXCEPT !.ctl[c].visible = FALSE]
    IN IF w.ctl[c].element # 0
       THEN [w1 EXCEPT !.nodes[w.ctl[c].element].display = "none"]
       ELSE w1

enable(w, c) ==
    LET w1 == [w EXCEPT !.ctl[c].disabled = FALSE]
    IN IF w.ctl[c].element # 0
       THEN [w1 EXCEPT !.nodes[w.ctl[c].element].disabledAttr = FALSE,
                       !.nodes[w.ctl[c].element].classList =
                           @ \ {"opacity-50", "pointer-events-none"}]
       ELSE w1

disable(w, c) ==
    LET w1 == [w EXCEPT !.ctl[c].disabled = TRUE]
    IN IF w.ctl[c].element # 0
       THEN [w1 EXCEPT !.nodes[w.ctl[c].element].disabledAttr = TRUE,
                       !.nodes[w.ctl[c].element].classList =
                           @ \cup {"opacity-50", "pointer-events-none"}]
       ELSE w1

\* trace entries
Step(ev, c, h, uid, source) ==
    [ev |-> ev, c |-> c, h |-> h, UID |-> uid, source |-> source]

\* the running state of a call: the objects it reads and writes, the trace
\* it leaves, and whether an exception is propagating
World == [ctl |-> ctl, nodes |-> nodes, reg |-> eventRegistry, uid |-> uidEvent,
          regNode |-> regNode, emap |-> elementMap, trace |-> <<>>, threw |-> FALSE]

(***************************************************************************)
(* Validation                                                              *)
(***************************************************************************)
\* Validation.VALID_CONTROL_TYPES, as far as the definitions above use it;
\* 'input' and types registered at runtime are not in it
VALID_CONTROL_TYPES == {"panel", "dropdown", "cart-grid", "grid-layout"}

\* an entry of result.errors or result.warnings: the message, and the indexes
\* of the "Child at index i: " prefixes in front of it
Err(path, msg) == [path |-> path, msg |-> msg]

\* text.includes(needle) for the messages Validation produces and the two
\* needles ControlFactory.create looks for
Includes(text, needle) ==
    <<text, needle>> \in {<<"Invalid control type", "Invalid control type">>,
                          <<"click.ns", ".">>, <<"click.ns2", ".">>, <<".ns", ".">>,
                          <<"click", "lick">>, <<"click.ns", "lick">>,
                          <<"click.ns2", "lick">>,
                          <<"click.ns", "lick.ns">>, <<"click.ns2", "lick.ns">>,
                          <<"click.ns2", "lick.ns2">>,
                          <<"click.ns", "ns">>, <<"click.ns2", "ns">>}

\* validateBasicStructure(definition, result): the errors it pushes
validateBasicStructure(d) ==
    IF d.isNull THEN <<Err(<<>>, "Control definition must be an object")>>
    ELSE (IF d.type = Undef
          THEN <<Err(<<>>, "Missing required property: type")>> ELSE <<>>)
         \o (IF d.type # Undef /\ d.type \notin VALID_CONTROL_TYPES
             THEN <<Err(<<>>, "Invalid control type")>> ELSE <<>>)

\* validateTypeSpecific(definition, result): what it pushes, and whether it
\* throws. Destructuring null throws; validateCartGrid calls
\* item.hasOwnProperty on each item and throws on a null item.
\* a value as a condition: undefined and 0 are falsy
truthy(v) == v.present /\ v.twice # 0

\* Number.isInteger(v) of a number
isInteger(v) == v.twice % 2 = 0

\* validateGridLayout(definition, result): the errors and warnings it pushes
validateGridLayout(d) ==
    LET rows == d.style.rows
        columns == d.style.columns
    IN IF ~d.style.present THEN [errors |-> <<>>, warnings |-> <<>>, threw |-> FALSE]
       ELSE [errors |->
                (IF truthy(rows) /\ (~isInteger(rows) \/ rows.twice < 2)
                 THEN <<Err(<<>>, "Grid rows must be a positive integer")>> ELSE <<>>)
                \o (IF truthy(columns) /\ (~isInteger(columns) \/ columns.twice < 2)
                    THEN <<Err(<<>>, "Grid columns must be a positive integer")>>
                    ELSE <<>>),
             warnings |->
                IF /\ truthy(rows) /\ truthy(columns)
                   /\ 4 * Len(d.children) > rows.twice * columns.twice
                THEN <<Err(<<>>, "Grid has more children than cells")>> ELSE <<>>,
             threw |-> FALSE]

validateTypeSpecific(d) ==
    LET quiet == [errors |-> <<>>, warnings |-> <<>>, threw |-> FALSE]
    IN IF d.isNull THEN [quiet EXCEPT !.threw = TRUE]
       ELSE IF d.type = "grid-layout" THEN validateGridLayout(d)
       ELSE IF d.type = "dropdown"
            THEN IF d.props = EmptyOptions
                 THEN [quiet EXCEPT !.warnings = <<Err(<<>>, "Dropdown has no options")>>]
                 ELSE [quiet EXCEPT !.errors =
                          <<Err(<<>>, "Dropdown must have options in props")>>]
       ELSE IF d.type = "cart-grid" /\ d.props = NullItem
            THEN [quiet EXCEPT !.threw = TRUE]
       ELSE quiet

\* `Child at index ${index}: ${error}` for every entry
Prefixed(index, es) ==
    [j \in 1..Len(es) |-> Err(<<index>> \o es[j].path, es[j].msg)]

\* generateUID(type): `${type}-${Date.now()}-${Math.floor(Math.random() * 1000)}`
generateUID(type) == type \o "-" \o ToString(now) \o "-" \o ToString(random)

\* applySanitization(definition, result): defaults for disabled, visible and
\* props (every definition here has a UID, so none is generated)
applySanitization(d) ==
    [d EXCEPT !.defaulted = TRUE,
              !.UID = IF @ = None THEN generateUID(d.type) ELSE @]

RECURSIVE validateControlDefinition(_)
RECURSIVE validateChildren(_, _)

\* validateChildren(definition, result): every child is validated on its own
\* and its errors and warnings are pushed with the child's index in front
validateChildren(children, index) ==
    IF index > Len(children) THEN [errors |-> <<>>, warnings |-> <<>>]
    ELSE LET childResult == validateControlDefinition(children[index])
             rest == validateChildren(children, index + 1)
         IN [errors |-> Prefixed(index - 1, childResult.errors) \o rest.errors,
             warnings |-> Prefixed(index - 1, childResult.warnings) \o rest.warnings]

\* validateControlDefinition(definition). An exception in one of the steps
\* ends the validation: what was pushed before stays, "Validation failed" is
\* pushed, and sanitizedDefinition stays null.
validateControlDefinition(d) ==
    LET basic == validateBasicStructure(d)
        specific == validateTypeSpecific(d)
        kids == validateChildren(d.children, 1)
        errors == basic \o specific.errors \o kids.errors
    IN IF specific.threw
       THEN [isValid |-> FALSE,
             errors |-> basic \o <<Err(<<>>, "Validation failed")>>,
             warnings |-> <<>>,
             sanitizedDefinition |-> NullDef]
       ELSE [isValid |-> errors = <<>>,
             errors |-> errors,
             warnings |-> specific.warnings \o kids.warnings
                          \o (IF d.UID = None THEN <<Err(<<>>, "Generated UID")>>
                              ELSE <<>>),
             sanitizedDefinition |-> applySanitization(d)]

(***************************************************************************)
(* ControlFactory                                                          *)
(***************************************************************************)
\* the classes a provider can return: a control class, a class whose
\* constructor throws, or nothing (the provider returns undefined)
ThrowingControl == "ThrowingControl"

\* window.Control: main.js puts DomUtilities, Validation, DataManager and
\* EventHandler on window, and every module of controls puts its own classes
\* there; nothing assigns window.Control
windowControl == Undef

\* what create(definition) did
Created(ret, class, def, ctors, validation) ==
    [ret |-> ret, class |-> class, def |-> def, ctors |-> ctors,
     validation |-> validation]

NoValidation ==
    [isValid |-> FALSE, errors |-> <<>>, warnings |-> <<>>,
     sanitizedDefinition |-> NullDef]

\* new window.Control(sanitizedDefinition) after the class constructors in
\* ctors ran; inTry tells whether a try block is around it. With window.Control
\* undefined the expression throws a TypeError.
newWindowControl(s, ctors, v, inTry) ==
    IF windowControl # Undef
    THEN Created("control", "Control", s, Append(ctors, "Control"), v)
    ELSE IF inTry THEN Created("null", None, s, ctors, v)
    ELSE Created("throw", None, s, ctors, v)

\* ControlFactory.create(definition)
create(d) ==
    IF d.isNull \/ d.type = Undef THEN Created("null", None, d, <<>>, NoValidation)
    ELSE LET validation == validateControlDefinition(d)
             criticalErrors ==
                 SelectSeq(validation.errors,
                           LAMBDA error : \/ Includes(error.msg, "type is required")
                                          \/ Includes(error.msg, "Invalid control type"))
             sanitizedDefinition ==
                 IF validation.sanitizedDefinition.isNull THEN d
                 ELSE validation.sanitizedDefinition
         IN IF ~validation.isValid /\ Len(criticalErrors) > 0
            THEN Created("null", None, d, <<>>, validation)
            ELSE IF sanitizedDefinition.type \notin DOMAIN controlTypes
            THEN newWindowControl(sanitizedDefinition, <<>>, validation, FALSE)
            ELSE LET ControlClass == controlTypes[sanitizedDefinition.type]
                 IN IF ControlClass = Undef
                    THEN newWindowControl(sanitizedDefinition, <<>>, validation, TRUE)
                    ELSE IF ControlClass = ThrowingControl
                    THEN newWindowControl(sanitizedDefinition, <<ThrowingControl>>,
                                          validation, TRUE)
                    ELSE Created("control", ControlClass, sanitizedDefinition,
                                 <<ControlClass>>, validation)

(***************************************************************************)
(* Control.render                                                          *)
(***************************************************************************)
RECURSIVE render(_, _)
RECURSIVE renderChildren(_, _, _)
RECURSIVE renderChild(_, _, _, _)
RECURSIVE renderedChild(_, _, _, _)

\* render(): createElement, attachEvents (DataManager.set(element, 'control',
\* this)), renderChildren
render(w, c) ==
    LET n == Len(w.nodes) + 1
        w1 == [w EXCEPT !.nodes = Append(@, createElement(w.ctl[c])),
                        !.ctl[c].element = n,
                        !.emap = [x \in DOMAIN @ \cup {n} |-> IF x = n THEN c ELSE @[x]]]
    IN renderChildren(w1, c, w1.ctl[c].children)

\* this.element.appendChild(childControl.render()) putting the child's
\* element under the element of the root
appendChild_flat(w, c, child) ==
    [w EXCEPT !.nodes[w.ctl[child].element].parentNode = w.ctl[1].element]

\* this.element.appendChild(childControl.render())
appendChild(w, c, child) ==
    [w EXCEPT !.nodes[w.ctl[child].element].parentNode = w.ctl[c].element]

\* the rest of the loop body once childControl.render() has run in w: an
\* exception leaves renderChildren, otherwise the element is appended and the
\* loop goes on
renderedChild(w, c, child, defs) ==
    IF w.threw THEN w
    ELSE renderChildren(appendChild(w, c, child), c, Tail(defs))

\* the loop body for the child that ControlFactory.create returned as made:
\* create() may throw; when it returns null, `childControl.parent = this`
\* throws a TypeError. An exception ends the loop and leaves render().
renderChild(w, c, defs, made) ==
    IF made.ret # "control" THEN [w EXCEPT !.threw = TRUE]
    ELSE renderedChild(
             render([w EXCEPT !.ctl = Append([@ EXCEPT ![c].childControls =
                                                 Append(@, Len(w.ctl) + 1)],
                                             NewControl(made.class, made.def, c))],
                    Len(w.ctl) + 1),
             c, Len(w.ctl) + 1, defs)

\* renderChildren(): for each child definition, create the child, link it,
\* render it and append its element
renderChildren(w, c, defs) ==
    IF defs = <<>> THEN w
    ELSE renderChild(w, c, defs, create(Head(defs)))

(***************************************************************************)
(* Control.emit                                                            *)
(***************************************************************************)
RECURSIVE invokeAll(_, _, _, _)
\* this.eventListeners[event].forEach(callback => { try { callback(data) }
\* catch (error) { this.logEvent('error', `... ${error.message}`) } })
\* A thrown Error is logged and the loop goes on; for a thrown null the catch
\* block itself fails on error.message and the TypeError leaves emit.
invokeAll(w, c, hs, data) ==
    IF hs = <<>> THEN w
    ELSE LET w1 == [w EXCEPT !.trace =
                        Append(@, Step("handler", c, Head(hs), data.UID, data.source))]
         IN IF Head(hs) = "hThrowsNull"
            THEN [w1 EXCEPT !.threw = TRUE]
            ELSE invokeAll(w1, c, Tail(hs), data)

RECURSIVE emit(_, _, _, _)
\* emit(event, data)
emit(w, c, event, data) ==
    LET w1 == invokeAll(w, c, w.ctl[c].eventListeners[event], data)
    IN IF w1.threw THEN w1
       ELSE IF w1.ctl[c].parent # 0
            THEN emit(w1, w1.ctl[c].parent, event,
                      [data EXCEPT !.source = w1.ctl[c].UID])
            ELSE w1

(***************************************************************************)
(* EventHandler                                                            *)
(***************************************************************************)
\* getElementEvents(element): gives the element a uid when it has none
\* (makeEventUid(element) = element.uidEvent || this.uidEvent++) and makes sure
\* the registry has an entry for it
getElementEvents(w, n) ==
    LET fresh == w.nodes[n].uidEvent = 0
        u == IF fresh THEN w.uid ELSE w.nodes[n].uidEvent
    IN [w EXCEPT !.uid = IF fresh THEN @ + 1 ELSE @,
                 !.nodes[n].uidEvent = u,
                 !.regNode = [x \in DOMAIN @ \cup {u} |-> IF x = u THEN n ELSE @[x]],
                 !.reg = IF u \in DOMAIN @ THEN @
                         ELSE [x \in DOMAIN @ \cup {u} |->
                                  IF x = u THEN [e \in {} |-> <<>>] ELSE @[x]]]

\* off(element) as cleanupElement calls it, with event undefined:
\* getElementEvents(element) runs, then event.includes('.') throws a TypeError
offAll(w, n) == [getElementEvents(w, n) EXCEPT !.threw = TRUE]

\* cleanupElement(element)
cleanupElement(w, n) ==
    IF n = 0 \/ w.nodes[n].uidEvent = 0 THEN w
    ELSE LET w1 == offAll(w, n)
         IN IF w1.threw THEN w1
            ELSE [w1 EXCEPT !.reg = [x \in DOMAIN @ \ {w1.nodes[n].uidEvent} |-> @[x]],
                            !.nodes[n].uidEvent = 0]

(***************************************************************************)
(* EventHandler.on, one, off and the dispatch of a click                   *)
(***************************************************************************)
\* the functions handed to on and one
Fns == {"f1", "f2"}

\* the selectors handed to on and one: none, or the class render gives the
\* element of every control (getBaseClasses)
Selectors == {None, ".control-base"}

\* a function object: the function fn itself (wrapper 0) or the wrapper with
\* that number which on built around fn
FnRef(wrapper, fn) == [wrapper |-> wrapper, fn |-> fn]

\* bootstrapHandler(element, fn) and bootstrapDelegationHandler(element,
\* selector, fn): `function handler(event) {...}.bind(this)` makes two function
\* objects, the inner one, which the name handler denotes in its own body, and
\* the bound one, which is returned; on sets oneOff and uidEvent on the one
\* returned
NewWrapper(n, event, selector, fn, oneOff, uid) ==
    [element |-> n, event |-> event, selector |-> selector, fn |-> fn,
     bound |-> [oneOff |-> IF oneOff THEN "true" ELSE "false", uidEvent |-> uid],
     handler |-> [oneOff |-> Undef]]

\* the running state of a call of EventHandler: the world, the listeners of
\* the elements, the wrappers, and the calls of handed functions so far
Dom == [w |-> World, listeners |-> domListeners, wrappers |-> wrappers,
        invoked |-> <<>>]

ListenersOf(ls, n) == IF n \in DOMAIN ls THEN ls[n] ELSE <<>>

selectorKeyOf(selector) == IF selector = None THEN "base" ELSE selector

\* the event names handed to on and off: a type, a type with a namespace, a
\* namespace alone
EventNames == {"click", "click.ns", "click.ns2", ".ns"}

\* normalizeEventType(event)[0]: the part before the first dot
originalTypeEventOf(event) == IF event = ".ns" THEN "" ELSE "click"

\* normalizeEventType(event)[1]: the dot and what follows it
namespaceEventOf(event) ==
    CASE event = "click" -> ""
      [] event \in {"click.ns", ".ns"} -> ".ns"
      [] event = "click.ns2" -> ".ns2"

\* `${originalTypeEvent}${namespaceEvent}`
eventKeyOf(event) == originalTypeEventOf(event) \o namespaceEventOf(event)

\* event.slice(1)
Slice1(event) ==
    CASE event = "click" -> "lick"
      [] event = "click.ns" -> "lick.ns"
      [] event = "click.ns2" -> "lick.ns2"
      [] event = ".ns" -> "ns"

\* on(element, event, selector, handler, oneOff); the listener is added for
\* the type 'click'
on(d, n, event, selector, fn, oneOff) ==
    LET id == d.w.uid
        w0 == [d.w EXCEPT !.uid = @ + 1]
        w1 == getElementEvents(w0, n)
        u == w1.nodes[n].uidEvent
        events == w1.reg[u]
        selectorKey == selectorKeyOf(selector)
        eventKey == eventKeyOf(event)
        eventData == IF eventKey \in DOMAIN events THEN events[eventKey]
                     ELSE [x \in {} |-> <<>>]
        handlers == IF selectorKey \in DOMAIN eventData THEN eventData[selectorKey]
                    ELSE <<>>
        pushed == [x \in DOMAIN eventData \cup {selectorKey} |->
                      IF x = selectorKey THEN Append(handlers, id) ELSE eventData[x]]
    IN [d EXCEPT
          !.w = [w1 EXCEPT !.reg[u] = [e \in DOMAIN events \cup {eventKey} |->
                                          IF e = eventKey THEN pushed ELSE events[e]]],
          !.wrappers = [x \in DOMAIN @ \cup {id} |->
                           IF x = id THEN NewWrapper(n, event, selector, fn, oneOff, id)
                           ELSE @[x]],
          !.listeners = [x \in DOMAIN @ \cup {n} |->
                            IF x = n THEN Append(ListenersOf(@, n), id) ELSE @[x]]]

\* off(element, 'click', selector, handler) with a handler: the registered
\* functions are compared with the handler handed in
off(d, n, selector, fn) ==
    LET w1 == getElementEvents(d.w, n)
        u == w1.nodes[n].uidEvent
        events == w1.reg[u]
        selectorKey == selectorKeyOf(selector)
    IN IF "click" \notin DOMAIN events THEN [d EXCEPT !.w = w1]
       ELSE LET eventData == events["click"]
                handlers == IF selectorKey \in DOMAIN eventData
                            THEN eventData[selectorKey] ELSE <<>>
                Same(h) == FnRef(h, d.wrappers[h].fn) = FnRef(0, fn)
                kept == SelectSeq(handlers, LAMBDA h : ~Same(h))
                keys == IF kept = <<>> THEN DOMAIN eventData \ {selectorKey}
                        ELSE DOMAIN eventData \cup {selectorKey}
                filtered == [x \in keys |-> IF x = selectorKey THEN kept
                                            ELSE eventData[x]]
                left == [e \in (IF keys = {} THEN DOMAIN events \ {"click"}
                                ELSE DOMAIN events) |->
                            IF e = "click" THEN filtered ELSE events[e]]
            IN [d EXCEPT
                  !.w = [w1 EXCEPT !.reg = IF DOMAIN left = {}
                                           THEN [x \in DOMAIN @ \ {u} |-> @[x]]
                                           ELSE [@ EXCEPT ![u] = left]],
                  !.listeners = [x \in DOMAIN @ |->
                                    IF x = n THEN SelectSeq(@[x], LAMBDA h : ~Same(h))
                                    ELSE @[x]]]

\* handlers.forEach(h => element.removeEventListener(originalTypeEvent, h)):
\* a listener goes when it was added for that type, and all were added for
\* 'click'
removeEventListeners(ls, n, originalTypeEvent, handlers) ==
    IF originalTypeEvent = "click" /\ n \in DOMAIN ls
    THEN [ls EXCEPT ![n] = SelectSeq(@, LAMBDA h : h \notin Range(handlers))]
    ELSE ls

\* the loop of off over eventKeys when no handler and no selector is handed
\* in: the listeners under 'base' are removed for originalTypeEvent, 'base' is
\* deleted, and an event left without selectors is deleted
RECURSIVE offKeys(_, _, _, _, _)
offKeys(events, ls, n, originalTypeEvent, eventKeys) ==
    IF eventKeys = <<>> THEN [events |-> events, listeners |-> ls]
    ELSE LET eventKey == Head(eventKeys)
         IN IF eventKey \notin DOMAIN events
            THEN offKeys(events, ls, n, originalTypeEvent, Tail(eventKeys))
            ELSE LET eventData == events[eventKey]
                     handlers == IF "base" \in DOMAIN eventData THEN eventData["base"]
                                 ELSE <<>>
                     left == [x \in DOMAIN eventData \ {"base"} |-> eventData[x]]
                 IN offKeys(IF DOMAIN left = {}
                            THEN [e \in DOMAIN events \ {eventKey} |-> events[e]]
                            ELSE [events EXCEPT ![eventKey] = left],
                            removeEventListeners(ls, n, originalTypeEvent, handlers),
                            n, originalTypeEvent, Tail(eventKeys))

\* a set of strings as an array
RECURSIVE SeqOf(_)
SeqOf(S) == IF S = {} THEN <<>>
            ELSE LET x == CHOOSE y \in S : TRUE IN << x >> \o SeqOf(S \ {x})

\* off(element, event) with an event and neither selector nor handler
offEvent(d, n, event) ==
    LET w1 == getElementEvents(d.w, n)
        u == w1.nodes[n].uidEvent
        events == w1.reg[u]
        isNamespaceEvent == Includes(event, ".")
        originalTypeEvent == originalTypeEventOf(event)
        eventKeys == IF isNamespaceEvent
                     THEN SeqOf({key \in DOMAIN events : Includes(key, Slice1(event))})
                     ELSE << originalTypeEvent >>
        done == offKeys(events, d.listeners, n, originalTypeEvent, eventKeys)
    IN IF DOMAIN events = {} THEN [d EXCEPT !.w = w1]
       ELSE [d EXCEPT
               !.w = [w1 EXCEPT !.reg = IF DOMAIN done.events = {}
                                        THEN [x \in DOMAIN @ \ {u} |-> @[x]]
                                        ELSE [@ EXCEPT ![u] = done.events]],
               !.listeners = done.listeners]

\* the elements from node n up to the root of its tree
RECURSIVE PathUp(_, _)
PathUp(ns, n) == IF n = 0 THEN <<>> ELSE << n >> \o PathUp(ns, ns[n].parentNode)

\* element.querySelectorAll(selector): the descendants of the element that
\* match; every element render creates has the class control-base
querySelectorAll(ns, n, selector) ==
    {m \in DOMAIN ns : m # n /\ n \in Range(PathUp(ns, m)) /\ selector = ".control-base"}

Invocation(id, fn, this) == [wrapper |-> id, fn |-> fn, this |-> this]

\* the wrapper called with an event whose target is the node target
handler(d, id, target) ==
    LET wr == d.wrappers[id]
        element == wr.element
        removed(x) == IF wr.handler.oneOff = "true"
                      THEN off(x, element, wr.selector, wr.fn) ELSE x
    IN IF wr.selector = None
       THEN [removed(d) EXCEPT !.invoked = Append(@, Invocation(id, wr.fn, element))]
       ELSE LET domElements == querySelectorAll(d.w.nodes, element, wr.selector)
                path == PathUp(d.w.nodes, target)
                hits == SelectSeq(path, LAMBDA m : m \in domElements)
            IN IF hits = <<>> THEN d
               ELSE [removed(d) EXCEPT
                        !.invoked = Append(@, Invocation(id, wr.fn, Head(hits)))]

\* the listeners of one element called in the order they were added; one
\* removed meanwhile is not called
RECURSIVE callListeners(_, _, _, _)
callListeners(d, n, ids, target) ==
    IF ids = <<>> THEN d
    ELSE callListeners(IF Head(ids) \in Range(ListenersOf(d.listeners, n))
                       THEN handler(d, Head(ids), target) ELSE d,
                       n, Tail(ids), target)

\* element.dispatchEvent(new CustomEvent('click', {bubbles: true})): the
\* event goes from the target up through its ancestors
RECURSIVE dispatchEvent(_, _, _)
dispatchEvent(d, path, target) ==
    IF path = <<>> THEN d
    ELSE dispatchEvent(callListeners(d, Head(path),
                                     ListenersOf(d.listeners, Head(path)), target),
                       Tail(path), target)

(***************************************************************************)
(* DataManager                                                             *)
(***************************************************************************)
\* clearElement(element)
clearElement(w, n) ==
    IF n = 0 THEN w
    ELSE [w EXCEPT !.emap = [x \in DOMAIN @ \ {n} |-> @[x]]]

(***************************************************************************)
(* Control.destroy                                                         *)
(***************************************************************************)
RECURSIVE destroy(_, _)
RECURSIVE destroyEach(_, _)

\* this.childControls.forEach(child => child.destroy()); an exception ends
\* the loop
destroyEach(w, cs) ==
    IF cs = <<>> \/ w.threw THEN w
    ELSE destroyEach(destroy(w, Head(cs)), Tail(cs))

\* removeChild and the two assignments that end destroy()
detachAndClear(w, c) ==
    LET n == w.ctl[c].element
        hasParent == n # 0 /\ (w.nodes[n].parentNode # 0 \/ w.nodes[n].inContainer)
        w1 == IF hasParent
              THEN [w EXCEPT !.nodes[n].parentNode = 0,
                             !.nodes[n].inContainer = FALSE,
                             !.trace = Append(@, Step("detach", c, None, None, None))]
              ELSE w
    IN [w1 EXCEPT !.ctl[c].eventListeners = NoListeners,
                  !.trace = @ \o << Step("clear", c, None, None, None),
                                    Step("destroyed", c, None, None, None) >>]

\* destroy() detaching the node and clearing the listener table before the
\* children are destroyed
destroy_parentFirst(w, c) ==
    LET n == w.ctl[c].element
        w0 == [w EXCEPT !.trace = Append(@, Step("destroy", c, None, None, None))]
        w1 == cleanupElement(w0, n)
        w2 == clearElement(w1, n)
        w3 == detachAndClear(w2, c)
    IN IF w1.threw THEN w1
       ELSE destroyEach(w3, w3.ctl[c].childControls)

\* destroy()
destroy(w, c) ==
    LET n == w.ctl[c].element
        w0 == [w EXCEPT !.trace = Append(@, Step("destroy", c, None, None, None))]
        w1 == cleanupElement(w0, n)
        w2 == clearElement(w1, n)
        w3 == destroyEach(w2, w2.ctl[c].childControls)
    IN IF w1.threw THEN w1
       ELSE IF w3.threw THEN w3
       ELSE detachAndClear(w3, c)

(***************************************************************************)
(* Control.setState                                                        *)
(***************************************************************************)
\* trace entries of setState
StateStep(ev, c, cb, new, old) ==
    [ev |-> ev, c |-> c, h |-> cb, new |-> new, old |-> old]

\* the objects handed to Control.setState: plain data, as every caller in
\* the controls passes (JSON.stringify(newState) in the log line returns)
Partials ==
    { <<Entry("k1", "a")>>,
      <<Entry("k1", "b"), Entry("k2", "b")>> }

\* setState(newState) calling the hook before the store is notified
setStateOf_hookFirst(w, c, newState) ==
    LET oldState == w.ctl[c].state
        merged == PutAll(oldState, newState)
        told == notifyStateChange(w.ctl[c].UID, merged, oldState)
    IN [w EXCEPT !.ctl[c].state = merged,
                 !.trace = @ \o << StateStep("assign", c, None, merged, oldState),
                                   StateStep("onStateChange", c, None, newState, oldState) >>
                             \o [i \in 1..Len(told) |->
                                    StateStep("notify", c, told[i].cb, told[i].new, told[i].old)]]

\* setState(newState): oldState = {...this.state}; this.state = {...this.state,
\* ...newState}; window.StateManager.notifyStateChange(this.UID, this.state,
\* oldState); this.onStateChange(newState, oldState)
setStateOf(w, c, newState) ==
    LET oldState == w.ctl[c].state
        merged == PutAll(oldState, newState)
        told == notifyStateChange(w.ctl[c].UID, merged, oldState)
    IN [w EXCEPT !.ctl[c].state = merged,
                 !.trace = @ \o << StateStep("assign", c, None, merged, oldState) >>
                             \o [i \in 1..Len(told) |->
                                    StateStep("notify", c, told[i].cb, told[i].new, told[i].old)]
                             \o << StateStep("onStateChange", c, None, newState, oldState) >>]

RECURSIVE findChild(_, _)
RECURSIVE findAmong(_, _)
\* findChild(UID): the control found, 0 for null
findChild(c, uid) == findAmong(ctl[c].childControls, uid)

findAmong(cs, uid) ==
    IF cs = <<>> THEN 0
    ELSE IF ctl[Head(cs)].UID = uid THEN Head(cs)
    ELSE LET nested == findChild(Head(cs), uid)
         IN IF nested # 0 THEN nested ELSE findAmong(Tail(cs), uid)

(***************************************************************************)
(* Actions on controls                                                     *)
(***************************************************************************)
\* a call on the factory: the definition or type it was given, what it did,
\* and the registry as it was when the call began
FCall(op, def, made) ==
    [op |-> op, def |-> def, type |-> def.type, made |-> made,
     registry |-> controlTypes]

\* a call on a control: event is the event name or, for setState, the argument
CCall(op, c, event, threw) ==
    [op |-> op, c |-> c, event |-> event, threw |-> threw,
     stateBefore |-> IF c = 0 THEN <<>> ELSE ctl[c].state,
     wasRendered |-> IF c = 0 THEN FALSE ELSE ctl[c].element # 0,
     wasDestroyed |-> c \in destroyed,
     childrenDestroyed |->
        IF c = 0 THEN FALSE
        ELSE /\ ctl[c].childControls # <<>>
             /\ \A i \in 1..Len(ctl[c].childControls) :
                    ctl[c].childControls[i] \in destroyed]

Commit(w) ==
    /\ ctl' = w.ctl
    /\ nodes' = w.nodes
    /\ eventRegistry' = w.reg
    /\ uidEvent' = w.uid
    /\ regNode' = w.regNode
    /\ elementMap' = w.emap
    /\ trace' = w.trace
    /\ destroyed' = destroyed \cup
          {w.trace[i].c : i \in {j \in 1..Len(w.trace) : w.trace[j].ev = "destroyed"}}

HandlerCount ==
    LET RECURSIVE SumCtl(_)
        SumCtl(i) == IF i = 0 THEN 0
                     ELSE Len(ctl[i].eventListeners["click"])
                          + Len(ctl[i].eventListeners["change"]) + SumCtl(i - 1)
    IN SumCtl(Len(ctl))

\* ControlFactory.create(definition). The application holds one UI tree at a
\* time (main.js, currentUI).
Create(def) ==
    /\ ctl = <<>>
    /\ LET made == create(def)
       IN /\ Commit(IF made.ret = "control"
                    THEN [World EXCEPT !.ctl = Append(@, NewControl(made.class, made.def, 0))]
                    ELSE World)
          /\ flast' = FCall("create", def, made)
          /\ clast' = CCall("create", 0, None, made.ret = "throw")
    /\ UNCHANGED <<storeVars, controlTypes, now, random, ctxVars, domVars>>

\* c.render(), and container.appendChild(element) when attach
Render(c, attach) ==
    /\ ctl[c].parent = 0
    /\ ctl[c].element = 0
    /\ LET w == render(World, c)
       IN /\ Commit(IF w.threw THEN w
                    ELSE [w EXCEPT !.nodes[w.ctl[c].element].inContainer = attach])
          /\ clast' = CCall("render", c, None, w.threw)
    /\ UNCHANGED <<storeVars, facVars, ctxVars, domVars>>

\* c.on(event, callback)
On(c, event, h) ==
    /\ HandlerCount < MaxHandlers
    /\ Commit([World EXCEPT !.ctl[c].eventListeners[event] = Append(@, h)])
    /\ clast' = CCall("on", c, event, FALSE)
    /\ UNCHANGED <<storeVars, facVars, ctxVars, domVars>>

\* c.emit(event, {UID: c.UID})
Emit(c, event) ==
    /\ LET w == emit(World, c, event, [UID |-> ctl[c].UID, source |-> None])
       IN /\ Commit(w)
          /\ clast' = CCall("emit", c, event, w.threw)
    /\ UNCHANGED <<storeVars, facVars, ctxVars, domVars>>

\* EventHandler.on(c.element, 'click', handler): the wrapped handler gets the
\* uid `click::${uidEvent++}`, then getElementEvents(element) runs and the
\* handler is pushed on events['click']['base']. Handlers are registered on
\* the nodes of live controls: a destroyed instance is not used again.
EventHandlerOn(c) ==
    /\ ctl[c].element # 0
    /\ c \notin destroyed
    /\ uidEvent <= MaxUid
    /\ LET n == ctl[c].element
           w0 == [World EXCEPT !.uid = @ + 1]
           w1 == getElementEvents(w0, n)
           u == w1.nodes[n].uidEvent
           old == w1.reg[u]
           handlers == IF "click" \in DOMAIN old THEN old["click"]["base"] ELSE <<>>
       IN Commit([w1 EXCEPT !.reg[u] =
              [e \in DOMAIN old \cup {"click"} |->
                  IF e = "click" THEN [s \in {"base"} |-> Append(handlers, uidEvent)]
                  ELSE old[e]]])
    /\ clast' = CCall("EventHandler.on", c, "click", FALSE)
    /\ UNCHANGED <<storeVars, facVars, ctxVars, domVars>>

\* c.destroy()
Destroy(c) ==
    /\ LET w == destroy(World, c)
       IN /\ Commit(w)
          /\ clast' = CCall("destroy", c, None, w.threw)
    /\ UNCHANGED <<storeVars, facVars, ctxVars, domVars>>

\* the subscriptions under the UIDs of the controls
ControlRegs ==
    LET RECURSIVE SumCtl(_)
        SumCtl(i) == IF i = 0 THEN 0
                     ELSE Len(listeners[ctl[i].UID])
                          + (IF \E j \in 1..(i - 1) : ctl[j].UID = ctl[i].UID
                             THEN 0 - Len(listeners[ctl[i].UID]) ELSE 0)
                          + SumCtl(i - 1)
    IN SumCtl(Len(ctl))

\* StateManager.subscribe(c.UID, callback)
SubscribeControl(c, cb) ==
    /\ ControlRegs < MaxRegs
    /\ subscribe(ctl[c].UID, cb)

\* the function returned by StateManager.subscribe(c.UID, callback)
UnsubscribeControl(c, cb) == unsubscribe(ctl[c].UID, cb)

\* c.setState(newState)
SetState(c, newState) ==
    /\ Commit(setStateOf(World, c, newState))
    /\ clast' = CCall("setState", c, newState, FALSE)
    /\ UNCHANGED <<storeVars, facVars, ctxVars, domVars>>

\* the flags of the control c and what its element shows of them
LookOf(cs, ns, c) ==
    [visible |-> cs[c].visible, disabled |-> cs[c].disabled,
     display |-> ns[cs[c].element].display,
     disabledAttr |-> ns[cs[c].element].disabledAttr,
     classList |-> ns[cs[c].element].classList]

\* a call of show, hide, enable or disable, with the look before it
VCall(op, c) ==
    [op |-> op, c |-> c, event |-> None, threw |-> FALSE,
     stateBefore |-> ctl[c].state, wasRendered |-> ctl[c].element # 0,
     wasDestroyed |-> c \in destroyed, childrenDestroyed |-> FALSE,
     lookBefore |-> IF ctl[c].element # 0 THEN LookOf(ctl, nodes, c) ELSE None]

Show(c) ==
    /\ Commit(show(World, c))
    /\ clast' = VCall("show", c)
    /\ UNCHANGED <<storeVars, facVars, ctxVars, domVars>>

Hide(c) ==
    /\ Commit(hide(World, c))
    /\ clast' = VCall("hide", c)
    /\ UNCHANGED <<storeVars, facVars, ctxVars, domVars>>

Enable(c) ==
    /\ Commit(enable(World, c))
    /\ clast' = VCall("enable", c)
    /\ UNCHANGED <<storeVars, facVars, ctxVars, domVars>>

Disable(c) ==
    /\ Commit(disable(World, c))
    /\ clast' = VCall("disable", c)
    /\ UNCHANGED <<storeVars, facVars, ctxVars, domVars>>

\* ControlFactory.registerControl(type, () => class)
RegisterControl(t, class) ==
    /\ controlTypes' = [x \in DOMAIN controlTypes \cup {t} |->
                           IF x = t THEN class ELSE controlTypes[x]]
    /\ flast' = FCall("registerControl", TypedDef(t, None, NoProps, <<>>),
                      Created("true", class, NullDef, <<>>, NoValidation))
    /\ UNCHANGED <<storeVars, ctlVars, now, random, ctxVars, domVars>>

\* ControlFactory.unregisterControl(type)
UnregisterControl(t) ==
    /\ controlTypes' = [x \in DOMAIN controlTypes \ {t} |-> controlTypes[x]]
    /\ flast' = FCall("unregisterControl", TypedDef(t, None, NoProps, <<>>),
                      Created(IF t \in DOMAIN controlTypes THEN "true" ELSE "false",
                              None, NullDef, <<>>, NoValidation))
    /\ UNCHANGED <<storeVars, ctlVars, now, random, ctxVars, domVars>>

\* ControlFactory.create({type}) with a definition that carries no UID, as
\* createBatch does for each of its definitions in turn; afterwards the clock
\* may have moved on, and the next random number is any
CreateUidless(type) ==
    /\ Len(ctl) < MaxOps
    /\ LET def == TypedDef(type, None, NoProps, <<>>)
           made == create(def)
       IN /\ Commit(IF made.ret = "control"
                    THEN [World EXCEPT !.ctl = Append(@, NewControl(made.class, made.def, 0))]
                    ELSE World)
          /\ flast' = FCall("create", def, made)
          /\ clast' = CCall("create", 0, None, made.ret = "throw")
    /\ \E t \in {now, now + 1} : t <= MaxRandom /\ now' = t
    /\ \E r \in 0..MaxRandom : random' = r
    /\ UNCHANGED <<storeVars, controlTypes, ctxVars, domVars>>

(***************************************************************************)
(* ControlFactory.createFromTemplate                                       *)
(***************************************************************************)
\* the JSON values of a template: strings, arrays and objects. A string is a
\* sequence of pieces, plain text or #{key}.
JString(text) == [kind |-> "string", text |-> text, items |-> <<>>]
JArray(items) == [kind |-> "array", text |-> <<>>, items |-> items]
JObject(fields) == [kind |-> "object", text |-> <<>>, items |-> fields]
Plain(s) == [kind |-> "text", key |-> s]
Placeholder(k) == [kind |-> "#{key}", key |-> k]
Field(k, v) == [key |-> k, value |-> v]

\* the value of an item of an array, or of a field of an object
ValueOf(v, i) == IF v.kind = "object" THEN v.items[i].value ELSE v.items[i]

\* v with the value x in place of its i-th item or field
WithValue(v, i, x) ==
    IF v.kind = "object" THEN [v EXCEPT !.items[i] = Field(@.key, x)]
    ELSE [v EXCEPT !.items[i] = x]

\* JSON.parse(JSON.stringify(template)): a new value, built piece by piece
RECURSIVE jsonClone(_)
jsonClone(v) ==
    IF v.kind = "string" THEN JString([i \in 1..Len(v.text) |-> v.text[i]])
    ELSE [kind |-> v.kind, text |-> <<>>,
          items |-> [i \in 1..Len(v.items) |->
                       IF v.kind = "object"
                       THEN Field(v.items[i].key, jsonClone(v.items[i].value))
                       ELSE jsonClone(v.items[i])]]

\* replaceContextPlaceholders(text, context): text.replace(/#{(\w+)}/g, ...),
\* one pass, with context[key] for a key of the context and the match itself
\* otherwise
replaceContextPlaceholders(text, ctx) ==
    [i \in 1..Len(text) |->
        IF text[i].kind = "#{key}" /\ hasKey(ctx, text[i].key)
        THEN Plain(Get(ctx, text[i].key))
        ELSE text[i]]

\* applyContextToDefinition(definition, context) for an object or, reached
\* through an array, an array, whose keys are then its indexes: a string
\* under a key is replaced, an object under a key is gone into, and of an
\* array under a key the items that are objects (arrays included) are gone
\* into while its other items are left as they are
RECURSIVE applyContextToDefinition(_, _)
applyContextToDefinition(definition, ctx) ==
    [definition EXCEPT !.items =
        [i \in 1..Len(definition.items) |->
            LET value == ValueOf(definition, i)
                applied ==
                    CASE value.kind = "string" ->
                           JString(replaceContextPlaceholders(value.text, ctx))
                      [] value.kind = "array" ->
                           JArray([j \in 1..Len(value.items) |->
                                      IF value.items[j].kind = "string"
                                      THEN value.items[j]
                                      ELSE applyContextToDefinition(value.items[j], ctx)])
                      [] value.kind = "object" -> applyContextToDefinition(value, ctx)
            IN WithValue(definition, i, applied).items[i]]]

\* a string as JavaScript has it
RECURSIVE textOf(_)
textOf(text) ==
    IF text = <<>> THEN ""
    ELSE (IF Head(text).kind = "text" THEN Head(text).key
          ELSE "#{" \o Head(text).key \o "}") \o textOf(Tail(text))

\* the value of the field k of the object v; v has the field
FieldOf(v, k) == v.items[CHOOSE i \in 1..Len(v.items) : v.items[i].key = k].value
hasField(v, k) == \E i \in 1..Len(v.items) : v.items[i].key = k

\* the definition create reads out of the object: its type, its UID and its
\* children; the props of a panel are not looked at by the validation
RECURSIVE definitionOf(_)
definitionOf(v) ==
    TypedDef(textOf(FieldOf(v, "type").text), textOf(FieldOf(v, "UID").text), NoProps,
             IF hasField(v, "children")
             THEN [i \in 1..Len(FieldOf(v, "children").items) |->
                      definitionOf(FieldOf(v, "children").items[i])]
             ELSE <<>>)

\* the templates and contexts a page hands to createFromTemplate
Label == JString(<<Placeholder("label")>>)
Templates ==
    { JObject(<<Field("type", JString(<<Plain("panel")>>)),
                Field("UID", JString(<<Plain("b1")>>)),
                Field("props", JObject(<<Field("text", Label),
                                         Field("title", JString(<<Plain("Hi "),
                                                                  Placeholder("name")>>))>>))>>),
      JObject(<<Field("type", JString(<<Plain("panel")>>)),
                Field("UID", JString(<<Plain("p")>>)),
                Field("props", JObject(<<Field("items",
                                   JArray(<<Label, JObject(<<Field("text", Label)>>)>>))>>)),
                Field("children", JArray(<<
                    JObject(<<Field("type", JString(<<Plain("panel")>>)),
                              Field("UID", JString(<<Plain("b1")>>)),
                              Field("props", JObject(<<Field("text", Label)>>))>>)>>))>>),
      JObject(<<Field("type", JString(<<Plain("panel")>>)),
                Field("UID", JString(<<Plain("b2")>>)),
                Field("props", JObject(<<Field("rows",
                                   JArray(<<JArray(<<Label>>)>>))>>))>>) }
TemplateContexts ==
    { <<>>, <<Entry("label", "L")>>, <<Entry("name", "N"), Entry("label", "L")>> }

\* ControlFactory.createFromTemplate(template, context)
CreateFromTemplate(template, ctx) ==
    /\ ctl = <<>>
    /\ LET definition == applyContextToDefinition(jsonClone(template), ctx)
           def == definitionOf(definition)
           made == create(def)
       IN /\ Commit(IF made.ret = "control"
                    THEN [World EXCEPT !.ctl = Append(@, NewControl(made.class, made.def, 0))]
                    ELSE World)
          /\ flast' = [op |-> "createFromTemplate", def |-> def, type |-> def.type,
                       made |-> made, registry |-> controlTypes,
                       template |-> template, context |-> ctx,
                       definition |-> definition]
          /\ clast' = CCall("create", 0, None, made.ret = "throw")
    /\ UNCHANGED <<storeVars, controlTypes, now, random, ctxVars, domVars>>

\* ControlFactory.validateDefinition(definition), which hands the definition
\* to Validation.validateControlDefinition
ValidateDefinition(def) ==
    /\ flast' = FCall("validateDefinition", def,
                      Created("validation", None, def, <<>>,
                              validateControlDefinition(def)))
    /\ UNCHANGED <<storeVars, ctlVars, controlTypes, now, random, ctxVars, domVars>>

(***************************************************************************)
(* ContextRenderer                                                         *)
(***************************************************************************)
maxCacheSize == 1000

\* A text is a sequence of pieces: plain text without placeholder syntax, or
\* one placeholder
Lit(s) == [kind |-> "text", key |-> s]
\* #{key}
Hash(k) == [kind |-> "#{key}", key |-> k]
\* ${key}
Dollar(k) == [kind |-> "${key}", key |-> k]
\* {{key}}
Brace(k) == [kind |-> "{{key}}", key |-> k]
\* #{key * 2}
Expr(k) == [kind |-> "#{key * 2}", key |-> k]

\* context values: integers and strings
Num(n) == [type |-> "number", n |-> n, text |-> <<>>]
Str(t) == [type |-> "string", n |-> 0, text |-> t]

\* formatValue(value)
formatValue(value) ==
    IF value.type = "number" THEN << Lit(ToString(value.n)) >> ELSE value.text

\* rendered.replace(/<form>(\w+)<form>/g, ...): one pass over the text for one
\* placeholder form; what a replacement inserts is not scanned again by
\* the same pass
RECURSIVE replaceAll(_, _, _)
replaceAll(text, kind, mergedContext) ==
    IF text = <<>> THEN <<>>
    ELSE LET t == Head(text)
         IN (IF t.kind = kind /\ hasKey(mergedContext, t.key)
             THEN formatValue(Get(mergedContext, t.key))
             ELSE << t >>)
            \o replaceAll(Tail(text), kind, mergedContext)

\* evaluateExpression(expression, context) for the expressions "key" and
\* "key * 2": every context key in the expression is replaced by the JSON of
\* its value, and only digits, blanks and arithmetic signs may remain
evaluateExpression(t, ctx) ==
    IF hasKey(ctx, t.key) /\ Get(ctx, t.key).type = "number"
    THEN [threw |-> FALSE,
          value |-> IF t.kind = "#{key * 2}" THEN Get(ctx, t.key).n * 2
                    ELSE Get(ctx, t.key).n]
    ELSE [threw |-> TRUE, value |-> 0]

\* rendered.replace(/#{(.+?)}/g, ...)
RECURSIVE replaceExpressions(_, _)
replaceExpressions(text, mergedContext) ==
    IF text = <<>> THEN <<>>
    ELSE LET t == Head(text)
             result == evaluateExpression(t, mergedContext)
         IN (IF t.kind \in {"#{key}", "#{key * 2}"} /\ ~result.threw
             THEN formatValue(Num(result.value))
             ELSE << t >>)
            \o replaceExpressions(Tail(text), mergedContext)

\* the four passes of render
replacePlaceholders(text, mergedContext) ==
    LET hashed == replaceAll(text, "#{key}", mergedContext)
        dollared == replaceAll(hashed, "${key}", mergedContext)
        braced == replaceAll(dollared, "{{key}}", mergedContext)
    IN replaceExpressions(braced, mergedContext)

\* createCacheKey(text, customContext): `${text}|${hashObject(customContext)}`
createCacheKey(text, customContext) == [text |-> text, hash |-> customContext]

\* addToCache(key, value)
addToCache(cache, key, value) ==
    Put(IF Len(cache) >= maxCacheSize THEN Tail(cache) ELSE cache, key, value)

\* text.includes(`#{${key}}`) || text.includes(`\${${key}}`) ||
\* text.includes(`{{${key}}}`) for some changed key
affectedByChange(text, changedKeys) ==
    \E i \in 1..Len(changedKeys), j \in 1..Len(text) :
        /\ text[j].key = changedKeys[i]
        /\ text[j].kind \in {"#{key}", "${key}", "{{key}}"}

\* an invalidation that flushes the cache whatever the keys
invalidateCache_flush(cache, changedKeys) == <<>>

\* invalidateCache(changedKeys)
invalidateCache(cache, changedKeys) ==
    IF changedKeys = <<>> THEN <<>>
    ELSE SelectSeq(cache, LAMBDA e : ~affectedByChange(e.key.text, changedKeys))

\* ContextRenderer.render(text, customContext): what it returns and the
\* cache it leaves
ContextRender(cache, ctx, text, customContext) ==
    LET cacheKey == createCacheKey(text, customContext)
    IN IF cacheEnabled /\ hasKey(cache, cacheKey)
       THEN [ret |-> Get(cache, cacheKey), cache |-> cache]
       ELSE LET rendered == replacePlaceholders(text, PutAll(ctx, customContext))
            IN [ret |-> rendered,
                cache |-> IF cacheEnabled THEN addToCache(cache, cacheKey, rendered)
                          ELSE cache]

RCall(op, text, extra, ret) == [op |-> op, text |-> text, extra |-> extra, ret |-> ret]

\* notifyWatchers(changedKeys): the callbacks it runs, in the order of the
\* Map; each gets changedKeys and this.context, and the cache is cache by then
RECURSIVE notifyWatchers(_, _, _, _)
notifyWatchers(ws, changedKeys, ctx, cache) ==
    IF ws = <<>> THEN <<>>
    ELSE (IF \E k \in Range(Head(ws).keys) : k \in Range(changedKeys)
          THEN << [id |-> Head(ws).id, callback |-> Head(ws).callback,
                   changedKeys |-> changedKeys, context |-> ctx, cache |-> cache] >>
          ELSE <<>>) \o notifyWatchers(Tail(ws), changedKeys, ctx, cache)

\* context[key] !== value
Differs(ctx, key, value) == ~hasKey(ctx, key) \/ Get(ctx, key) # value

\* ContextRenderer.render(text, customContext)
\* ContextRenderer.render(text, customContext), whatever the cache holds
ContextRendererRenderCall(text, customContext) ==
    /\ LET r == ContextRender(renderCache, context, text, customContext)
       IN /\ renderCache' = r.cache
          /\ rlast' = RCall("render", text, customContext, r.ret)
    /\ notified' = <<>>
    /\ UNCHANGED <<context, cacheEnabled, watchers>>
    /\ UNCHANGED <<storeVars, ctlVars, facVars, domVars>>

\* ContextRenderer.render(text, customContext) while the cache is small
ContextRendererRender(text, customContext) ==
    /\ \/ ~cacheEnabled
       \/ hasKey(renderCache, createCacheKey(text, customContext))
       \/ Len(renderCache) < MaxCache
    /\ ContextRendererRenderCall(text, customContext)

\* ContextRenderer.setContext(key, value)
SetContext(key, value) ==
    /\ context' = Put(context, key, value)
    /\ renderCache' = IF Differs(context, key, value)
                      THEN invalidateCache(renderCache, << key >>)
                      ELSE renderCache
    /\ notified' = IF Differs(context, key, value)
                   THEN notifyWatchers(watchers, << key >>, context', renderCache')
                   ELSE <<>>
    /\ rlast' = RCall("setContext", <<>>, <<>>, <<>>)
    /\ UNCHANGED <<cacheEnabled, watchers>>
    /\ UNCHANGED <<storeVars, ctlVars, facVars, domVars>>

\* ContextRenderer.updateContext(updates)
UpdateContext(updates) ==
    /\ LET changedKeys == SelectSeq(ObjectKeys(updates),
                                    LAMBDA k : Differs(context, k, Get(updates, k)))
       IN /\ context' = PutAll(context, updates)
          /\ renderCache' = IF changedKeys # <<>>
                            THEN invalidateCache(renderCache, changedKeys)
                            ELSE renderCache
          /\ notified' = IF changedKeys # <<>>
                         THEN notifyWatchers(watchers, changedKeys, context',
                                             renderCache')
                         ELSE <<>>
    /\ rlast' = RCall("updateContext", <<>>, <<>>, <<>>)
    /\ UNCHANGED <<cacheEnabled, watchers>>
    /\ UNCHANGED <<storeVars, ctlVars, facVars, domVars>>

\* ContextRenderer.clearContext()
ClearContext ==
    /\ context' = <<>>
    /\ renderCache' = <<>>
    /\ notified' = notifyWatchers(watchers, ObjectKeys(context), <<>>, <<>>)
    /\ rlast' = RCall("clearContext", <<>>, <<>>, <<>>)
    /\ UNCHANGED <<cacheEnabled, watchers>>
    /\ UNCHANGED <<storeVars, ctlVars, facVars, domVars>>

\* ContextRenderer.setCacheEnabled(enabled)
SetCacheEnabled(enabled) ==
    /\ cacheEnabled' = enabled
    /\ renderCache' = IF enabled THEN renderCache ELSE <<>>
    /\ rlast' = RCall("setCacheEnabled", <<>>, <<>>, <<>>)
    /\ notified' = <<>>
    /\ UNCHANGED <<context, watchers>>
    /\ UNCHANGED <<storeVars, ctlVars, facVars, domVars>>

\* the keys and callbacks handed to watch
WatchedKeys == { << "Total" >>, << "Note", "UserName" >> }
WatchCallbacks == {"w1", "w2"}

\* unwatch = ContextRenderer.watch(keys, callback); the watcher gets an id no
\* other watcher has
Watch(keys, callback) ==
    /\ Len(watchers) < MaxRegs
    /\ watchers' = Append(watchers,
                          [id |-> CHOOSE n \in 1..(Len(watchers) + 1) :
                                     \A i \in 1..Len(watchers) : watchers[i].id # n,
                           keys |-> keys, callback |-> callback])
    /\ notified' = <<>>
    /\ rlast' = RCall("watch", <<>>, <<>>, <<>>)
    /\ UNCHANGED <<context, renderCache, cacheEnabled>>
    /\ UNCHANGED <<storeVars, ctlVars, facVars, domVars>>

\* the function that watch returned: this.watchers.delete(watcherId)
Unwatch(id) ==
    /\ \E i \in 1..Len(watchers) : watchers[i].id = id
    /\ watchers' = SelectSeq(watchers, LAMBDA w : w.id # id)
    /\ notified' = <<>>
    /\ rlast' = RCall("unwatch", <<>>, <<>>, <<>>)
    /\ UNCHANGED <<context, renderCache, cacheEnabled>>
    /\ UNCHANGED <<storeVars, ctlVars, facVars, domVars>>

\* the texts rendered: none has a placeholder inside a placeholder
Texts ==
    { << Lit("Total: "), Hash("Total") >>,
      << Expr("Total") >>,
      << Dollar("Note") >>,
      << Brace("Missing") >> }

\* the custom contexts handed to render
Extras == { <<>>, << Entry("Total", Num(7)) >> }

\* the (key, value) pairs handed to setContext
ContextInputs ==
    { << "Total", Num(5) >>,
      << "Total", Num(6) >>,
      << "Note", Str(<< Hash("UserName") >>) >> }

\* the objects handed to updateContext
Updates == { << Entry("Total", Num(6)), Entry("Note", Str(<< Lit("paid") >>)) >> }

\* ControlFactory.controlTypes as the class is loaded, for the types the
\* definitions above use
InitFactory ==
    /\ controlTypes = [t \in {"panel", "dropdown", "cart-grid", "input", "grid-layout"} |->
                          CASE t = "panel" -> "PanelControl"
                            [] t = "grid-layout" -> "GridLayoutControl"
                            [] t = "dropdown" -> "DropdownControl"
                            [] t = "cart-grid" -> "CartGridControl"
                            [] t = "input" -> "TextBoxControl"]
    /\ flast = [op |-> "init", def |-> NullDef, type |-> Undef,
                made |-> Created("null", None, NullDef, <<>>, NoValidation),
                registry |-> [t \in {} |-> None]]
    /\ now = 0
    /\ random = 0

\* ContextRenderer's static fields as the class is loaded; of the eight
\* entries of the context, all strings, the one the texts below use
InitContext ==
    /\ context = << Entry("UserName", Str(<<Lit("John Doe")>>)) >>
    /\ renderCache = <<>>
    /\ cacheEnabled = TRUE
    /\ rlast = RCall("init", <<>>, <<>>, <<>>)
    /\ watchers = <<>>
    /\ notified = <<>>

ECall(op, n, invoked, counts) ==
    [op |-> op, element |-> n, invoked |-> invoked, calls |-> counts]

\* the result d of a call of EventHandler becomes the state
CommitDom(d) ==
    /\ Commit(d.w)
    /\ domListeners' = d.listeners
    /\ wrappers' = d.wrappers
    /\ clast' = clast

\* how often each wrapper has called the function handed to on
CallsAfter(invoked) ==
    [id \in DOMAIN wrappers' |->
        (IF id \in DOMAIN elast.calls THEN elast.calls[id] ELSE 0)
        + Cardinality({i \in 1..Len(invoked) : invoked[i].wrapper = id})]

\* EventHandler.on(c.element, 'click', selector, fn, oneOff), where a selector
\* of None stands for on(c.element, 'click', fn, undefined, oneOff)
EventHandlerOnOneOff(c, selector, fn, oneOff) ==
    /\ ctl[c].element # 0
    /\ Cardinality(DOMAIN wrappers) < MaxHandlers
    /\ CommitDom(on(Dom, ctl[c].element, "click", selector, fn, oneOff))
    /\ elast' = ECall(IF oneOff THEN "one" ELSE "on", ctl[c].element, <<>>,
                      CallsAfter(<<>>))
    /\ UNCHANGED <<storeVars, facVars, ctxVars>>

\* EventHandler.one(c.element, 'click', selector, fn)
EventHandlerOne(c, selector, fn) == EventHandlerOnOneOff(c, selector, fn, TRUE)

\* EventHandler.off(c.element, 'click', selector, fn)
EventHandlerOff(c, selector, fn) ==
    /\ ctl[c].element # 0
    /\ ctl[c].element \in DOMAIN domListeners
    /\ CommitDom(off(Dom, ctl[c].element, selector, fn))
    /\ elast' = ECall("off", ctl[c].element, <<>>, CallsAfter(<<>>))
    /\ UNCHANGED <<storeVars, facVars, ctxVars>>

\* EventHandler.on(c.element, event, fn) with an event of a type and,
\* possibly, a namespace
EventHandlerOnEvent(c, event, fn) ==
    /\ ctl[c].element # 0
    /\ Cardinality(DOMAIN wrappers) < MaxHandlers
    /\ CommitDom(on(Dom, ctl[c].element, event, None, fn, FALSE))
    /\ elast' = ECall("on", ctl[c].element, <<>>, CallsAfter(<<>>))
    /\ UNCHANGED <<storeVars, facVars, ctxVars>>

\* EventHandler.off(c.element, event)
EventHandlerOffEvent(c, event) ==
    /\ ctl[c].element # 0
    /\ CommitDom(offEvent(Dom, ctl[c].element, event))
    /\ elast' = ECall("off", ctl[c].element, <<>>, CallsAfter(<<>>))
    /\ UNCHANGED <<storeVars, facVars, ctxVars>>

\* a click on the element of c: EventHandler.trigger(c.element, 'click') or
\* the user's
Dispatch(c) ==
    /\ ctl[c].element # 0
    /\ \A id \in DOMAIN elast.calls : elast.calls[id] < MaxOps
    /\ LET target == ctl[c].element
           d == dispatchEvent(Dom, PathUp(nodes, target), target)
       IN /\ CommitDom(d)
          /\ elast' = ECall("dispatch", target, d.invoked, CallsAfter(d.invoked))
    /\ UNCHANGED <<storeVars, facVars, ctxVars>>

\* the attributes Control.createElement sets on the element it builds
ElementAttributes == {"id", "data-testid", "data-control-type"}

\* whether node n is attached to the document
isAttached(ns, n) == ns[PathUp(ns, n)[Len(PathUp(ns, n))]].inContainer

\* document.querySelectorAll('[data-uid="uid"]'): the attached elements that
\* carry the attribute data-uid with the value uid
querySelectorAllDataUid(ns, rn, uid) ==
    {n \in DOMAIN ns : /\ isAttached(ns, n)
                       /\ "data-uid" \in ElementAttributes
                       /\ uid \in DOMAIN rn /\ rn[uid] = n}

\* EventHandler.cleanup: the uids it deletes from the registry
orphanedUIDs(reg, ns, rn) ==
    {uid \in DOMAIN reg : querySelectorAllDataUid(ns, rn, uid) = {}}

EventHandlerCleanup ==
    /\ LET orphaned == orphanedUIDs(eventRegistry, nodes, regNode)
       IN /\ eventRegistry' = [uid \in DOMAIN eventRegistry \ orphaned |->
                                  eventRegistry[uid]]
          /\ elast' = [op |-> "cleanup", element |-> 0, invoked |-> <<>>,
                       calls |-> elast.calls, returned |-> Cardinality(orphaned)]
    /\ UNCHANGED <<ctl, nodes, uidEvent, regNode, elementMap, destroyed, clast, trace>>
    /\ UNCHANGED <<domListeners, wrappers, storeVars, facVars, ctxVars>>

InitDom ==
    /\ domListeners = [n \in {} |-> <<>>]
    /\ wrappers = [id \in {} |-> <<>>]
    /\ elast = ECall("init", 0, <<>>, [id \in {} |-> 0])

InitControls ==
    /\ ctl = <<>>
    /\ nodes = <<>>
    /\ eventRegistry = [u \in {} |-> <<>>]
    /\ uidEvent = 1
    /\ regNode = [u \in {} |-> 0]
    /\ elementMap = [n \in {} |-> 0]
    /\ destroyed = {}
    /\ clast = [op |-> "init", c |-> 0, event |-> None, threw |-> FALSE,
                stateBefore |-> <<>>,
                wasRendered |-> FALSE, wasDestroyed |-> FALSE,
                childrenDestroyed |-> FALSE]
    /\ trace = <<>>

\* event emission and bubbling in a rendered tree
NextEmit ==
    \/ \E def \in TreeDefs : Create(def)
    \/ \E c \in 1..Len(ctl) : Render(c, TRUE)
    \/ \E c \in 1..Len(ctl), e \in Events, h \in Handlers : On(c, e, h)
    \/ \E c \in 1..Len(ctl), e \in Events : Emit(c, e)

\* teardown of a tree whose controls and elements carry handlers
NextDestroy ==
    \/ \E def \in TreeDefs : Create(def)
    \/ \E c \in 1..Len(ctl), attach \in BOOLEAN : Render(c, attach)
    \/ \E c \in 1..Len(ctl) : On(c, "click", "hOk")
    \/ \E c \in 1..Len(ctl) : EventHandlerOn(c)
    \/ \E c \in 1..Len(ctl) : Destroy(c)

InitStore ==
    /\ state = <<>>
    /\ listeners = [k \in Keys \cup UIDs |-> <<>>]
    /\ globalListeners = <<>>
    /\ history = <<>>
    /\ last = Call("init", None, Undef, <<>>, TRUE)
    /\ pre = <<>>
    /\ calls = <<>>
    /\ exported = [held |-> FALSE, state |-> <<>>]
    /\ computed = NoComputed

Init == InitStore /\ InitControls /\ InitFactory /\ InitContext /\ InitDom

Next ==
    \/ \E k \in Keys, cb \in Subs : subscribe(k, cb)
    \/ \E k \in Keys, cb \in Subs : unsubscribe(k, cb)
    \/ \E cb \in Subs : subscribeGlobal(cb)
    \/ \E cb \in Subs : unsubscribeGlobal(cb)
    \/ \E k \in Keys, v \in Vals : setState(k, v)
    \/ \E k \in Keys : removeState(k)
    \/ clearState
    \/ \E u \in StateInputs : updateState(u)
    \/ \E e \in StateInputs : importState(e)
    \/ \E s \in StateInputs : restoreSnapshot(s)
    \/ \E op \in {"updateState", "importState", "restoreSnapshot"} : rejected(op)

Spec == Init /\ [][Next]_vars

\* a caller that exports the state, goes on changing the store and imports
\* the export again
NextExport ==
    \/ \E k \in Keys, v \in Vals : setState(k, v)
    \/ \E k \in Keys : removeState(k)
    \/ clearHistory
    \/ exportState
    \/ importExported

SpecExport == Init /\ [][NextExport]_vars

\* subscribers that call setState while they are notified
NextReentrant ==
    \/ \E k \in Keys, cb \in Subs \cup Writers : subscribe(k, cb)
    \/ \E k \in Keys, cb \in Subs \cup Writers : unsubscribe(k, cb)
    \/ \E k \in Keys, v \in Vals : setStateReentrant(k, v)

SpecReentrant == Init /\ [][NextReentrant]_vars

\* subscribers that unsubscribe themselves while they are notified
NextUnsubscribing ==
    \/ \E k \in Keys, cb \in Subs \cup Unsubscribers : subscribe(k, cb)
    \/ \E cb \in Subs \cup Unsubscribers : subscribeGlobal(cb)
    \/ \E k \in Keys, v \in Vals : setStateUnsubscribing(k, v)

SpecUnsubscribing == Init /\ [][NextUnsubscribing]_vars

\* a computed value over the store
NextComputed ==
    \/ \E deps \in Dependencies : computedOf(deps)
    \/ destroyComputed
    \/ \E k \in Keys, v \in Vals : setState(k, v)
    \/ \E k \in Keys : removeState(k)
    \/ clearState
    \/ \E u \in StateInputs : updateState(u)
    \/ \E e \in StateInputs : importState(e)
    \/ \E e \in StateInputs : restoreSnapshot(e)

SpecComputed == Init /\ [][NextComputed]_vars

\* controls made from definitions without a UID
NextUid ==
    \/ CreateUidless("panel")
    \/ \E c \in 1..Len(ctl) : Render(c, TRUE)
    \/ \E c \in 1..Len(ctl) : Destroy(c)

SpecUid == Init /\ [][NextUid]_vars

SpecEmit == Init /\ [][NextEmit]_vars

SpecDestroy == Init /\ [][NextDestroy]_vars

\* the types a page registers and unregisters, and what their providers return
RegisteredTypes == {"panel", "my-control"}
ProvidedClasses == {"MyControl", Undef, ThrowingControl}
UnregisteredTypes == {"panel", "input", "my-control"}

\* creation and rendering from definitions of any shape, with a registry that
\* changes at runtime
NextFactory ==
    \/ \E def \in TreeDefs \cup OddDefs : Create(def)
    \/ \E c \in 1..Len(ctl) : Render(c, TRUE)
    \/ \E t \in RegisteredTypes, class \in ProvidedClasses : RegisterControl(t, class)
    \/ \E t \in UnregisteredTypes : UnregisterControl(t)
    \/ \E def \in TreeDefs \cup OddDefs : ValidateDefinition(def)

SpecFactory == Init /\ [][NextFactory]_vars

\* controls made from templates
NextTemplate ==
    \/ \E template \in Templates, ctx \in TemplateContexts :
          CreateFromTemplate(template, ctx)
    \/ \E c \in 1..Len(ctl) : Render(c, TRUE)
    \/ \E t \in RegisteredTypes, class \in ProvidedClasses : RegisterControl(t, class)
    \/ \E t \in UnregisteredTypes : UnregisterControl(t)

SpecTemplate == Init /\ [][NextTemplate]_vars

\* state changes of controls, published to the store under the control's UID
NextControlState ==
    \/ \E def \in TreeDefs : Create(def)
    \/ \E c \in 1..Len(ctl), cb \in Subs : SubscribeControl(c, cb)
    \/ \E c \in 1..Len(ctl), cb \in Subs : UnsubscribeControl(c, cb)
    \/ \E c \in 1..Len(ctl), newState \in Partials : SetState(c, newState)

SpecControlState == Init /\ [][NextControlState]_vars

NextControlStore ==
    \/ Create(Def("b1", <<>>))
    \/ \E c \in 1..Len(ctl), cb \in Subs : SubscribeControl(c, cb)
    \/ subscribeGlobal("s1")
    \/ \E k \in {"k1", "b1"} : setState(k, "a")
    \/ \E c \in 1..Len(ctl), newState \in Partials : SetState(c, newState)

SpecControlStore == Init /\ [][NextControlStore]_vars

\* controls that are used after destroy()
NextTerminal ==
    \/ \E def \in {Def("b1", <<>>), Def("p", <<Def("b1", <<>>)>>)} : Create(def)
    \/ \E c \in 1..Len(ctl) : Render(c, TRUE)
    \/ \E c \in 1..Len(ctl) : On(c, "click", "hOk")
    \/ \E c \in 1..Len(ctl) : Emit(c, "click")
    \/ \E c \in 1..Len(ctl) : Destroy(c)
    \/ \E c \in 1..Len(ctl) : SubscribeControl(c, "s1")
    \/ \E c \in 1..Len(ctl) : SetState(c, <<Entry("k1", "a")>>)

SpecTerminal == Init /\ [][NextTerminal]_vars

(***************************************************************************)
(* DomUtilities.getUID                                                     *)
(***************************************************************************)
\* a loop that tries the prefix with the latest number only
RECURSIVE getUID_latestOnly(_, _, _, _)
getUID_latestOnly(prefix, ids, draws, collisions) ==
    IF draws = <<>>
    THEN [returned |-> FALSE, uid |-> prefix, collisions |-> collisions]
    ELSE IF prefix \o ToString(Head(draws)) \in ids
    THEN getUID_latestOnly(prefix, ids, Tail(draws), collisions + 1)
    ELSE [returned |-> TRUE, uid |-> prefix \o ToString(Head(draws)),
          collisions |-> collisions]

\* getUID(prefix) in a document whose attached elements have the ids in ids,
\* with draws the values Math.floor(Math.random() * MAX_UID) takes one after
\* the other: do { prefix += draw } while (document.getElementById(prefix)).
\* returned tells whether the loop had ended when the draws were used up.
RECURSIVE getUID(_, _, _, _)
getUID(prefix, ids, draws, collisions) ==
    IF draws = <<>>
    THEN [returned |-> FALSE, uid |-> prefix, collisions |-> collisions]
    ELSE IF prefix \o ToString(Head(draws)) \in ids
    THEN getUID(prefix \o ToString(Head(draws)), ids, Tail(draws), collisions + 1)
    ELSE [returned |-> TRUE, uid |-> prefix \o ToString(Head(draws)),
          collisions |-> collisions]

\* the ids of the elements attached to the document: createElement gives an
\* element the UID of its control as id
documentIds ==
    {ctl[elementMap[n]].UID : n \in {x \in DOMAIN nodes : isAttached(nodes, x)}}

\* definitions whose UIDs look like generated ones
GeneratedLooking ==
    Def("control1", <<Def("control11", <<>>), Def("control0", <<>>)>>)

Prefixes == {"control"}
Draws == [1..MaxDraws -> 0..MaxRandom]

\* DomUtilities.getUID(prefix)
GetUID(prefix, draws) ==
    /\ LET got == getUID(prefix, documentIds, draws, 0)
       IN flast' = [op |-> "getUID", def |-> NullDef, type |-> Undef,
                    made |-> Created("null", None, NullDef, <<>>, NoValidation),
                    registry |-> controlTypes,
                    prefix |-> prefix, ids |-> documentIds, draws |-> draws,
                    returned |-> got.returned, uid |-> got.uid,
                    collisions |-> got.collisions]
    /\ UNCHANGED <<storeVars, ctlVars, controlTypes, now, random, ctxVars, domVars>>

NextGetUID ==
    \/ \E def \in {GeneratedLooking, Def("control1", <<>>)} : Create(def)
    \/ \E c \in 1..Len(ctl), attach \in BOOLEAN : Render(c, attach)
    \/ \E prefix \in Prefixes, draws \in Draws : GetUID(prefix, draws)

SpecGetUID == Init /\ [][NextGetUID]_vars

\* the values handed in as style.rows and style.columns, and the grid-layout
\* definitions handed to validateControlDefinition
GridNumbers == {Absent} \cup {Number(twice) : twice \in (0 - 2)..MaxTwice}

GridDefs ==
    {[TypedDef("grid-layout", "g", NoProps, [i \in 1..n |-> Def("b1", <<>>)])
        EXCEPT !.style = Style(rows, columns)] :
        rows \in GridNumbers, columns \in GridNumbers, n \in {0, MaxChildren}}
    \cup {TypedDef("grid-layout", "g", NoProps, <<>>)}

NextGrid ==
    \/ \E def \in GridDefs : ValidateDefinition(def)

SpecGrid == Init /\ [][NextGrid]_vars

NextHistory ==
    \/ \E k \in Keys, cb \in Subs : subscribe(k, cb)
    \/ setStateCall("k1", "a")

SpecHistory == Init /\ [][NextHistory]_vars

\* the lines of a long list, rendered one after the other: the first MaxCache
\* of them show the total, the others are plain
MaxTexts == maxCacheSize + MaxCache

TextNo(n) ==
    IF n <= MaxCache THEN << Lit(ToString(n)), Hash("Total") >>
    ELSE << Lit(ToString(n)) >>

\* the number of the line that comes after the one rendered last
NextNo ==
    IF renderCache = <<>> THEN 1
    ELSE CHOOSE n \in 2..(MaxTexts + 1) :
            TextNo(n - 1) = renderCache[Len(renderCache)].key.text

NextCache ==
    \/ NextNo <= MaxTexts /\ ContextRendererRenderCall(TextNo(NextNo), <<>>)
    \/ SetContext("Total", Num(5))
    \/ ClearContext

SpecCache == Init /\ [][NextCache]_vars

NextLook ==
    \/ \E def \in {Def("b1", <<>>), TypedDef("input", "b2", NoProps, <<>>),
                    TypedDef("grid-layout", "g", NoProps, <<>>)} : Create(def)
    \/ \E c \in 1..Len(ctl), attach \in BOOLEAN : Render(c, attach)
    \/ \E c \in 1..Len(ctl) : Show(c)
    \/ \E c \in 1..Len(ctl) : Hide(c)
    \/ \E c \in 1..Len(ctl) : Enable(c)
    \/ \E c \in 1..Len(ctl) : Disable(c)

SpecLook == Init /\ [][NextLook]_vars

\* rendering of templates against a changing context
NextContext ==
    \/ \E text \in Texts, extra \in Extras : ContextRendererRender(text, extra)
    \/ \E in \in ContextInputs : SetContext(in[1], in[2])
    \/ \E updates \in Updates : UpdateContext(updates)
    \/ ClearContext
    \/ \E enabled \in BOOLEAN : SetCacheEnabled(enabled)

SpecContext == Init /\ [][NextContext]_vars

\* watchers of the context
WatchedTexts == { << Lit("Total: "), Hash("Total") >>, << Expr("Total") >> }

NextWatch ==
    \/ \E keys \in WatchedKeys, callback \in WatchCallbacks : Watch(keys, callback)
    \/ \E id \in 1..MaxRegs : Unwatch(id)
    \/ \E text \in WatchedTexts : ContextRendererRender(text, <<>>)
    \/ \E n \in {5, 6} : SetContext("Total", Num(n))
    \/ \E updates \in Updates : UpdateContext(updates)
    \/ ClearContext

SpecWatch == Init /\ [][NextWatch]_vars

\* handlers added with on and one to the elements of a rendered tree, and
\* clicks on those elements
NextOne ==
    \/ \E def \in TreeDefs : Create(def)
    \/ \E c \in 1..Len(ctl) : Render(c, TRUE)
    \/ \E c \in 1..Len(ctl), selector \in Selectors, fn \in Fns :
          EventHandlerOne(c, selector, fn)
    \/ \E c \in 1..Len(ctl), selector \in Selectors, fn \in Fns :
          EventHandlerOnOneOff(c, selector, fn, FALSE)
    \/ \E c \in 1..Len(ctl), selector \in Selectors, fn \in Fns :
          EventHandlerOff(c, selector, fn)
    \/ \E c \in 1..Len(ctl) : Dispatch(c)

SpecOne == Init /\ [][NextOne]_vars

\* handlers added under namespaces and removed by event name
NextNamespace ==
    \/ Create(Def("b1", <<>>))
    \/ \E c \in 1..Len(ctl) : Render(c, TRUE)
    \/ \E c \in 1..Len(ctl), event \in EventNames \ {".ns"}, fn \in Fns :
          EventHandlerOnEvent(c, event, fn)
    \/ \E c \in 1..Len(ctl), event \in EventNames : EventHandlerOffEvent(c, event)
    \/ \E c \in 1..Len(ctl) : Dispatch(c)

SpecNamespace == Init /\ [][NextNamespace]_vars

NextCleanup ==
    \/ Create(Def("b1", <<>>))
    \/ \E c \in 1..Len(ctl), attach \in BOOLEAN : Render(c, attach)
    \/ \E c \in 1..Len(ctl), fn \in Fns : EventHandlerOnEvent(c, "click", fn)
    \/ \E c \in 1..Len(ctl) : Dispatch(c)
    \/ EventHandlerCleanup

SpecCleanup == Init /\ [][NextCleanup]_vars

TypeOK ==
    /\ Len(history) <= MaxOps
    /\ Regs <= MaxRegs

(***************************************************************************)
(* Reactive Store: properties                                              *)
(***************************************************************************)
\* the per-key callback invocations for key k among cs, in order
KeyCallsFor(cs, k) == SelectSeq(cs, LAMBDA c : c.kind = "key" /\ c.key = k)

GlobalCalls(cs) == SelectSeq(cs, LAMBDA c : c.kind = "global")

Callbacks(cs) == [i \in 1..Len(cs) |-> cs[i].cb]

\* one invocation per registration of key k, in registration order
ExpectedKeyCalls(k, new, old) ==
    [i \in 1..Len(listeners[k]) |-> KeyCall(listeners[k][i], k, new, old)]

\* C1: with k unset, setState(k, v1) directly followed by setState(k, v2)
\* invokes every registration for k exactly twice, first with (v1, undefined)
\* and then with (v2, v1), in registration order within each round.
C1_TwoSetStates ==
    [][ ( /\ last.op = "setState"
          /\ ~hasKey(pre, last.key)
          /\ last'.op = "setState"
          /\ last'.key = last.key
          /\ history' # history )
        => KeyCallsFor(calls, last.key) \o KeyCallsFor(calls', last.key)
             = ExpectedKeyCalls(last.key, last.value, Undef)
               \o ExpectedKeyCalls(last.key, last'.value, last.value) ]_vars

\* two different callbacks subscribed to k have just seen the second of two
\* setState calls on the previously unset k, with different values
C1_Witness ==
    /\ last.op = "setState"
    /\ Len(history) = 2
    /\ history[1].type = "setState" /\ history[1].key = last.key
    /\ history[1].oldValue = Undef
    /\ history[2].type = "setState" /\ history[2].key = last.key
    /\ history[2].oldValue # last.value
    /\ Len(listeners[last.key]) = 2
    /\ listeners[last.key][1] # listeners[last.key][2]
    /\ Len(KeyCallsFor(calls, last.key)) = 2

MutatingOps ==
    {"setState", "updateState", "removeState", "clearState", "importState",
     "restoreSnapshot"}

Rank(kind) == IF kind = "history" THEN 1 ELSE IF kind = "key" THEN 2 ELSE 3

\* the call appended one history entry, then ran per-key subscribers in
\* registration order, then the global subscribers in registration order
AppendThenKeysThenGlobals ==
    /\ Len(calls) >= 1 /\ calls[1] = HistoryEvent
    /\ Len(SelectSeq(calls, LAMBDA c : c.kind = "history")) = 1
    /\ Len(history) >= 1 /\ history[Len(history)].type = last.op
    /\ \A i, j \in 1..Len(calls) : i < j => Rank(calls[i].kind) <= Rank(calls[j].kind)
    /\ \A k \in Keys :
          Callbacks(KeyCallsFor(calls, k)) \in {<<>>, listeners[k]}
    /\ Callbacks(GlobalCalls(calls)) = globalListeners

\* the call updateState(updates) found a key whose value differs
UpdateChanges == \E i \in 1..Len(last.input) : Get(pre, last.input[i].key) # last.input[i].value

C3_ChangeNotifies ==
    \A k \in Keys :
        Get(pre, k) # Get(state, k)
          => /\ Callbacks(KeyCallsFor(calls, k)) = listeners[k]
             /\ \A i \in 1..Len(KeyCallsFor(calls, k)) :
                    KeyCallsFor(calls, k)[i].new = Get(state, k)

(***************************************************************************)
(* Controls: properties                                                    *)
(***************************************************************************)
\* the control and its ancestors, from the control up to the root
RECURSIVE PathToRoot(_)
PathToRoot(c) == IF c = 0 THEN <<>> ELSE <<c>> \o PathToRoot(ctl[c].parent)

\* the controls below c, through childControls
RECURSIVE Descendants(_)
Descendants(c) ==
    LET kids == Range(ctl[c].childControls)
    IN kids \cup UNION {Descendants(k) : k \in kids}

HandlerSteps == SelectSeq(trace, LAMBDA t : t.ev = "handler")

\* how often handler h was invoked on control x by the last call
Invocations(x, h) ==
    Cardinality({i \in 1..Len(HandlerSteps) :
                    HandlerSteps[i].c = x /\ HandlerSteps[i].h = h})

\* how often handler h is registered for event e on control x
Registrations(x, e, h) ==
    Cardinality({i \in 1..Len(ctl[x].eventListeners[e]) :
                    ctl[x].eventListeners[e][i] = h})

Throwing == {"hThrowsError", "hThrowsNull"}

\* a handler registered for the emitted event on the path to the root throws
SomeHandlerThrows ==
    \E i \in 1..Len(PathToRoot(clast.c)) :
        Range(ctl[PathToRoot(clast.c)[i]].eventListeners[clast.event]) \cap Throwing # {}

\* C4: when a handler registered for the event throws, every handler
\* registered for the event on the emitter and on each of its ancestors is
\* still invoked (the failure is isolated and the event still bubbles).
C4_Original ==
    (clast.op = "emit" /\ SomeHandlerThrows)
      => /\ ~clast.threw
         /\ \A i \in 1..Len(PathToRoot(clast.c)), h \in Handlers :
               Invocations(PathToRoot(clast.c)[i], h)
                 = Registrations(PathToRoot(clast.c)[i], clast.event, h)

\* the handlers emit has to invoke: those of the control in registration
\* order, then those of each ancestor in turn
RECURSIVE ExpectedInvocations(_, _)
ExpectedInvocations(path, e) ==
    IF path = <<>> THEN <<>>
    ELSE [i \in 1..Len(ctl[Head(path)].eventListeners[e]) |->
             <<Head(path), ctl[Head(path)].eventListeners[e][i]>>]
         \o ExpectedInvocations(Tail(path), e)

\* C5: emit invokes the handlers of the control in registration order and
\* then those of each ancestor up to the root, once per registration, and no
\* handler stops the handlers further up.
C5_Original ==
    clast.op = "emit"
      => [i \in 1..Len(HandlerSteps) |-> <<HandlerSteps[i].c, HandlerSteps[i].h>>]
           = ExpectedInvocations(PathToRoot(clast.c), clast.event)

\* C6: a handler on an ancestor, at any distance, receives source equal to
\* the UID of the control on which emit was called.
C6_Original ==
    clast.op = "emit"
      => \A i \in 1..Len(HandlerSteps) :
            HandlerSteps[i].c # clast.c
              => HandlerSteps[i].source = ctl[clast.c].UID

\* the uids under which the registry holds an entry for element n
RegistryEntriesOf(n) == {u \in DOMAIN eventRegistry : regNode[u] = n}

\* C7: destroy() of a rendered control completes and leaves no registry
\* entry for its node nor for the node of any descendant.
C7_Original ==
    (clast.op = "destroy" /\ clast.wasRendered)
      => /\ ~clast.threw
         /\ \A d \in {clast.c} \cup Descendants(clast.c) :
               ctl[d].element # 0 => RegistryEntriesOf(ctl[d].element) = {}

\* C8: after c.destroy() on a control with a parent p, c is no longer in
\* p.childControls and p.findChild(c.UID) returns null.
C8_Original ==
    (clast.op = "destroy" /\ ~clast.threw /\ ctl[clast.c].parent # 0)
      => /\ clast.c \notin Range(ctl[ctl[clast.c].parent].childControls)
         /\ findChild(ctl[clast.c].parent, ctl[clast.c].UID) = 0

\* the state a completed destroy() leaves: no listeners, the node detached
\* and unknown to the Data Manager and the Event Registry, for the control
\* and everything below it
TornDown(c) ==
    \A d \in {c} \cup Descendants(c) :
        /\ ctl[d].eventListeners = NoListeners
        /\ ctl[d].element # 0
             => /\ nodes[ctl[d].element].parentNode = 0
                /\ ~nodes[ctl[d].element].inContainer
                /\ ctl[d].element \notin DOMAIN elementMap
                /\ RegistryEntriesOf(ctl[d].element) = {}

\* C9: destroy() on a control whose children were already destroyed, that
\* was itself already destroyed, or that was never rendered does not throw and
\* leaves the state a single destroy() leaves.
C9_Original ==
    ( /\ clast.op = "destroy"
      /\ clast.childrenDestroyed \/ clast.wasDestroyed \/ ~clast.wasRendered )
      => ~clast.threw /\ TornDown(clast.c)

\* C10: teardown is post-order: when p's node is detached and when p's
\* listener table is cleared, the destroy() of every descendant of p has
\* already completed within the same call.
C10_PostOrder ==
    clast.op = "destroy"
      => \A i \in 1..Len(trace) :
            trace[i].ev \in {"detach", "clear"}
              => \A d \in Descendants(trace[i].c) :
                    \E j \in 1..(i - 1) : trace[j].ev = "destroyed" /\ trace[j].c = d

\* destroy() of an attached root with a child and a grandchild has completed
C10_Witness ==
    /\ clast.op = "destroy" /\ ~clast.threw
    /\ \E k \in Descendants(clast.c) : Descendants(k) # {}
    /\ \E i \in 1..Len(trace) : trace[i].ev = "detach" /\ trace[i].c = clast.c

(***************************************************************************)
(* Control Factory and Validation: properties                              *)
(***************************************************************************)
\* the definition has no type or a type outside the valid type set
Unconstructible(d) == d.type = Undef \/ d.type \notin VALID_CONTROL_TYPES

\* C11: create(d) returns null without invoking a constructor when d is null,
\* has no type or has a type outside the valid type set; for every other
\* definition (with warnings only, or with errors in its own fields that are
\* not about the type) it returns a control built from the sanitized
\* definition.
C11_Original ==
    flast.op = "create"
      => IF flast.def.isNull \/ Unconstructible(flast.def)
         THEN flast.made.ret = "null" /\ flast.made.ctors = <<>>
         ELSE /\ flast.made.ret = "control"
              /\ flast.made.def = applySanitization(flast.def)

\* the child definitions of control x that can be constructed
SoundChildren(x) ==
    {i \in 1..Len(ctl[x].children) : ~Unconstructible(ctl[x].children[i])}

\* the child definition d of control x was created, linked and appended
Linked(x, d) ==
    \E k \in Range(ctl[x].childControls) :
        /\ ctl[k].UID = d.UID
        /\ ctl[k].parent = x
        /\ ctl[k].element # 0
        /\ nodes[ctl[k].element].parentNode = ctl[x].element

\* C12: a child definition that cannot be constructed does not abort its
\* parent: the parent is created, render() on the parent completes, and every
\* sibling of the failing child is created, linked and appended.
C12_Original ==
    /\ ( /\ flast.op = "create"
         /\ ~flast.def.isNull /\ ~Unconstructible(flast.def)
         /\ \E i \in 1..Len(flast.def.children) : Unconstructible(flast.def.children[i]) )
          => flast.made.ret = "control"
    /\ ( /\ clast.op = "render"
         /\ SoundChildren(clast.c) # 1..Len(ctl[clast.c].children) )
          => /\ ~clast.threw
             /\ \A i \in SoundChildren(clast.c) : Linked(clast.c, ctl[clast.c].children[i])

\* create(d) got past the validation of d
PastValidation(d) ==
    /\ ~d.isNull /\ d.type # Undef
    /\ \A i \in 1..Len(validateControlDefinition(d).errors) :
           validateControlDefinition(d).errors[i].msg # "Invalid control type"

\* the registry the call found has no usable class for the type
Degraded ==
    \/ flast.type \notin DOMAIN flast.registry
    \/ flast.registry[flast.type] \in {Undef, ThrowingControl}

\* C13: create never throws; when the type has no provider, the provider
\* returns no class or the constructor throws, create returns a base Control
\* built from the sanitized definition, and null only if constructing the base
\* Control fails.
C13_Original ==
    (flast.op = "create" /\ PastValidation(flast.def))
      => /\ flast.made.ret # "throw"
         /\ (Degraded /\ flast.made.ret = "control") => flast.made.class = "Control"
         /\ (Degraded /\ flast.made.ret = "null") => windowControl = Undef

\* C14: create({type: t}) returns an instance of the class the registry holds
\* for t, for a type registered at runtime as for the types the registry starts
\* with (the alias 'input' included); a type that is not or no longer in the
\* registry is not built by a provider.
C14_Original ==
    /\ ( /\ flast.op = "create"
         /\ ~flast.def.isNull /\ flast.def.children = <<>>
         /\ flast.type \in DOMAIN flast.registry
         /\ flast.registry[flast.type] \notin {Undef, ThrowingControl} )
          => /\ flast.made.ret = "control"
             /\ flast.made.class = flast.registry[flast.type]
    /\ ( /\ flast.op = "create"
         /\ flast.type \notin DOMAIN flast.registry )
          => flast.made.ctors \in {<<>>, <<"Control">>}

\* at control x: one child control per child definition, in the same order,
\* each with x as parent and its node a child node of x's node
TreeShape(x) ==
    LET kids == ctl[x].childControls
    IN /\ Len(kids) = Len(ctl[x].children)
       /\ \A i \in 1..Len(kids) :
             /\ ctl[kids[i]].UID = ctl[x].children[i].UID
             /\ ctl[kids[i]].type = ctl[x].children[i].type
             /\ ctl[kids[i]].parent = x
             /\ ctl[kids[i]].element # 0
             /\ nodes[ctl[kids[i]].element].parentNode = ctl[x].element

OwnErrors(d) == validateControlDefinition([d EXCEPT !.children = <<>>]).errors

\* the errors of d and of every descendant of d, each with its child indexes
RECURSIVE SubtreeErrors(_)
RECURSIVE ChildErrors(_, _)
SubtreeErrors(d) == OwnErrors(d) \o ChildErrors(d.children, 1)

ChildErrors(children, index) ==
    IF index > Len(children) THEN <<>>
    ELSE Prefixed(index - 1, SubtreeErrors(children[index]))
         \o ChildErrors(children, index + 1)

\* C17: isValid is true exactly when the errors list is empty; the list holds
\* the errors of every descendant at any depth, each prefixed with its child
\* index, so d is valid exactly when neither d nor a descendant yields an
\* error; warnings do not change isValid.
C17_Original ==
    flast.op = "validateDefinition"
      => LET result == flast.made.validation
         IN /\ result.isValid <=> result.errors = <<>>
            /\ Range(SubtreeErrors(flast.def)) \subseteq Range(result.errors)
            /\ result.isValid <=> SubtreeErrors(flast.def) = <<>>

(***************************************************************************)
(* Control.setState: properties                                            *)
(***************************************************************************)
\* C16: c.setState(partial) sets c.state to the shallow merge of the previous
\* state and partial (keys of partial win), then notifies every registration
\* under key c.UID exactly once with (merged state, pre-merge state), in
\* registration order, and only then calls c.onStateChange(partial, pre-merge
\* state).
C16_MergeNotifyHook ==
    [][\A c \in 1..Len(ctl), partial \in Partials :
          SetState(c, partial)
            => LET before == ctl[c].state
                   merged == ctl'[c].state
                   regs == listeners[ctl[c].UID]
               IN /\ \A k \in Keys :
                         Get(merged, k) = IF hasKey(partial, k) THEN Get(partial, k)
                                          ELSE Get(before, k)
                  /\ Len(trace') = Len(regs) + 2
                  /\ trace'[1] = StateStep("assign", c, None, merged, before)
                  /\ \A i \in 1..Len(regs) :
                         trace'[i + 1] = StateStep("notify", c, regs[i], merged, before)
                  /\ trace'[Len(trace')] = StateStep("onStateChange", c, None, partial, before)]_vars

\* setState on a control with two subscribers has overwritten one key and
\* added another
C16_Witness ==
    /\ clast.op = "setState"
    /\ Len(trace) = 4
    /\ trace[2].ev = "notify" /\ trace[3].ev = "notify" /\ trace[2].h # trace[3].h
    /\ hasKey(clast.stateBefore, "k1") /\ ~hasKey(clast.stateBefore, "k2")
    /\ Get(clast.stateBefore, "k1") # Get(ctl[clast.c].state, "k1")
    /\ hasKey(ctl[clast.c].state, "k2")

(***************************************************************************)
(* ContextRenderer: properties                                             *)
(***************************************************************************)
\* C18: with caching enabled, after any sequence of setContext, updateContext,
\* clearContext and render calls, render(text, extra) returns the string that
\* rendering the same text against the current context without the cache
\* returns.
C18_Original ==
    [][\A text \in Texts, extra \in Extras :
          (cacheEnabled /\ ContextRendererRender(text, extra))
            => rlast'.ret = replacePlaceholders(text, PutAll(context, extra))]_vars

\* every placeholder of the text replaced once by the formatted value of its
\* key, unknown keys left as they are
RECURSIVE SubstitutedOnce(_, _)
SubstitutedOnce(text, ctx) ==
    IF text = <<>> THEN <<>>
    ELSE LET t == Head(text)
         IN (CASE t.kind = "text" -> << t >>
               [] t.kind = "#{key * 2}" ->
                    IF evaluateExpression(t, ctx).threw THEN << t >>
                    ELSE formatValue(Num(evaluateExpression(t, ctx).value))
               [] OTHER ->
                    IF hasKey(ctx, t.key) THEN formatValue(Get(ctx, t.key))
                    ELSE << t >>)
            \o SubstitutedOnce(Tail(text), ctx)

\* C19: for a text without nested placeholders, rendering what render computed
\* gives the same string again, and what render computed is the text with
\* each placeholder replaced once by its value, unknown variables verbatim.
C19_Original ==
    [][\A text \in Texts, extra \in Extras :
          (/\ ContextRendererRender(text, extra)
           /\ ~(cacheEnabled /\ hasKey(renderCache, createCacheKey(text, extra))))
            => LET mergedContext == PutAll(context, extra)
                   once == rlast'.ret
               IN /\ replacePlaceholders(once, mergedContext) = once
                  /\ once = SubstitutedOnce(text, mergedContext)]_vars

(***************************************************************************)
(* EventHandler.one: properties                                            *)
(***************************************************************************)
(***************************************************************************)
(* EventHandler.off: properties                                            *)
(***************************************************************************)
\* the wrapper is among the handlers of the registry reg
InReg(reg, id) ==
    \E u \in DOMAIN reg :
       \E e \in DOMAIN reg[u] :
          \E k \in DOMAIN reg[u][e] : id \in Range(reg[u][e][k])

\* C21: off(node, 'click', [selector,] fn) with the function that was handed
\* to on cancels exactly the registrations of fn: their wrappers are no longer
\* listeners of the node nor in the registry, and every other wrapper stays
\* where it was.
C21_Original ==
    [][\A c \in 1..Len(ctl), selector \in Selectors, fn \in Fns :
          EventHandlerOff(c, selector, fn)
            => \A id \in DOMAIN wrappers :
                  LET n == wrappers[id].element
                      meant == /\ n = ctl[c].element
                               /\ wrappers[id].selector = selector
                               /\ wrappers[id].fn = fn
                      listens(ls) == id \in Range(ListenersOf(ls, n))
                  IN IF meant
                     THEN ~listens(domListeners') /\ ~InReg(eventRegistry', id)
                     ELSE /\ listens(domListeners') = listens(domListeners)
                          /\ InReg(eventRegistry', id) = InReg(eventRegistry, id)]_vars

\* C22: after off(node, 'click.ns') or off(node, '.ns') without a handler, no
\* handler registered on the node under the namespace ns is a listener of the
\* node any more, and the handlers registered on the node under another
\* namespace or under none stay listeners and stay in the registry.
C22_Original ==
    [][\A c \in 1..Len(ctl), event \in {"click.ns", ".ns"} :
          EventHandlerOffEvent(c, event)
            => \A id \in DOMAIN wrappers :
                  LET n == wrappers[id].element
                      listens(ls) == id \in Range(ListenersOf(ls, n))
                  IN n = ctl[c].element
                       => IF namespaceEventOf(wrappers[id].event) = ".ns"
                          THEN ~listens(domListeners')
                          ELSE /\ listens(domListeners') = listens(domListeners)
                               /\ InReg(eventRegistry', id)
                                    = InReg(eventRegistry, id)]_vars

\* C24: while a computed value is not destroyed, after every operation of
\* the store its getValue() is computeFn of the current values of its
\* dependencies, and the operation notified its subscribers exactly when the
\* value differs from the one before.
C24_Original ==
    [][(computed.live /\ last'.op \in MutatingOps)
         => /\ computed'.currentValue
                 = computeFn([i \in 1..Len(computed.deps) |->
                                 Get(state', computed.deps[i])])
            /\ (computed'.notified > 0)
                 = (computed'.currentValue # computed.currentValue)]_vars

\* C30: when a subscriber of k has called setState(k, ...) while it was being
\* notified, then once the outermost setState has returned the last value
\* delivered to every subscriber of k is getState(k).
C30_Original ==
    ( /\ last.op = "setState"
      /\ Len(SelectSeq(calls, LAMBDA c : c.kind = "history")) > 1 )
      => \A cb \in Range(listeners[last.key]) :
            LET mine == SelectSeq(KeyCallsFor(calls, last.key), LAMBDA c : c.cb = cb)
            IN mine # <<>> /\ mine[Len(mine)].new = Get(state, last.key)

\* how often cb is in the array
Count(array, cb) == Cardinality({i \in 1..Len(array) : array[i] = cb})

\* the array without the first cb
WithoutFirst(array, cb) ==
    IF cb \in Range(array) THEN Splice(array, IndexOf(array, cb)) ELSE array

\* C31: when a subscriber of k, or a global subscriber, unsubscribes itself
\* while it is notified of a setState, every other subscriber of k, and every
\* other global subscriber, is still called once per registration, and the
\* remaining subscribers keep their order.
C31_Original ==
    [][\A k \in Keys, v \in Vals :
          setStateUnsubscribing(k, v)
            => /\ \A cb \in Subs :
                    /\ Len(SelectSeq(KeyCallsFor(calls', k), LAMBDA c : c.cb = cb))
                         = Count(listeners[k], cb)
                    /\ Len(SelectSeq(GlobalCalls(calls'), LAMBDA c : c.cb = cb))
                         = Count(globalListeners, cb)
               /\ listeners'[k] = WithoutFirst(listeners[k], "u1")
               /\ globalListeners' = WithoutFirst(globalListeners, "u1")]_vars

\* C32: a render(), setState() or emit() on a control on which destroy() has
\* been called creates no node, notifies no subscriber of the store and
\* invokes no handler, on the control or on its former ancestors.
C32_Original ==
    (clast.wasDestroyed /\ clast.op \in {"render", "setState", "emit"})
      => /\ \A i \in 1..Len(trace) : trace[i].ev \notin {"notify", "handler"}
         /\ clast.op = "render" => ctl[clast.c].element = 0

\* C34: once destroy() was called on a computed value, no dependency change
\* recomputes it or invokes a callback subscribed to it, and the store holds
\* none of its dependency subscriptions, also when a key is listed twice
C34_DestroyedComputedIsQuiet ==
    [][(~computed'.live /\ computed'.isInitialized)
         => /\ \A k \in Keys : "compute" \notin Range(listeners'[k])
            /\ \A i \in 1..Len(calls') : calls'[i].cb # "compute"
            /\ computed'.notified = 0
            /\ ~computed.live => computed'.currentValue = computed.currentValue]_vars

\* a computed value over the same key twice was destroyed, and the key was
\* written afterwards
C34_Witness ==
    /\ ~computed.live /\ computed.isInitialized
    /\ computed.deps = <<"k1", "k1">>
    /\ last.op = "setState" /\ last.key = "k1"
    /\ Get(state, "k1") # computed.currentValue[1]

\* the last n entries of the log h
MostRecent(h, n) == SubSeq(h, IF Len(h) > n THEN Len(h) - n + 1 ELSE 1, Len(h))

\* C39: the history never holds more than maxHistorySize entries; when an
\* entry comes in over that, the oldest one is dropped, so that the log is the
\* most recent mutations in the order they were recorded
C39_HistoryIsBounded ==
    [][/\ Len(history') <= maxHistorySize
       /\ setStateCall("k1", "a")
            => history' = MostRecent(
                              Append(history,
                                     HistoryEntry("setState", "k1", Get(state, "k1"),
                                                  "a", <<>>, <<>>, <<>>)),
                              maxHistorySize)]_vars

\* the log is full and its first entry, the one whose old value is undefined,
\* has been dropped
C39_Witness ==
    /\ Len(history) = maxHistorySize
    /\ history[1].oldValue = "a"
    /\ last.op = "setState"

\* C25: restoreSnapshot(s) makes s.state the whole state and calls, for every
\* key of the old or of the restored state, each subscriber of the key once
\* with (restored value, old value), undefined standing for the value of a
\* key that is not in the restored state; subscribers of other keys are not
\* called.
C25_RestoreNotifiesUnion ==
    (last.op = "restoreSnapshot" /\ last.ret)
      => /\ state = last.input
         /\ \A k \in Keys :
               KeyCallsFor(calls, k)
                 = IF hasKey(pre, k) \/ hasKey(last.input, k)
                   THEN ExpectedKeyCalls(k, Get(last.input, k), Get(pre, k))
                   ELSE <<>>

\* a snapshot without k was restored over a state with k, and a subscriber of
\* k was called with undefined as the new value
C25_Witness ==
    /\ last.op = "restoreSnapshot" /\ last.ret
    /\ \E k \in Keys :
          /\ hasKey(pre, k) /\ ~hasKey(last.input, k)
          /\ listeners[k] # <<>>
          /\ \E i \in 1..Len(calls) :
                calls[i] = KeyCall(listeners[k][1], k, Undef, Get(pre, k))
    /\ \E k \in Keys : hasKey(last.input, k) /\ ~hasKey(pre, k)

\* C26: with e = exportState() taken when the store held S, importState(e)
\* after any further changes of the store leaves the store with exactly the
\* keys and values of S.
C26_RoundTrip ==
    [][importExported
         => /\ \A k \in Keys : hasKey(state', k) = hasKey(exported.state, k)
            /\ \A k \in Keys : Get(state', k) = Get(exported.state, k)
            /\ Len(state') = Len(exported.state)]_vars

\* an export was imported over a store that had since gained a key and
\* changed the value of another
C26_Witness ==
    /\ last.op = "importState" /\ last.ret
    /\ exported.held /\ last.input = exported.state
    /\ state = exported.state
    /\ \E k \in Keys : hasKey(pre, k) /\ ~hasKey(exported.state, k)
    /\ \E k \in Keys : /\ hasKey(pre, k) /\ hasKey(exported.state, k)
                        /\ Get(pre, k) # Get(exported.state, k)

\* v with every #{key} whose key is in ctx replaced, in every string at any
\* depth
RECURSIVE SubstitutedDeep(_, _)
SubstitutedDeep(v, ctx) ==
    IF v.kind = "string" THEN JString(replaceContextPlaceholders(v.text, ctx))
    ELSE [v EXCEPT !.items =
             [i \in 1..Len(v.items) |->
                 IF v.kind = "object"
                 THEN Field(v.items[i].key, SubstitutedDeep(v.items[i].value, ctx))
                 ELSE SubstitutedDeep(v.items[i], ctx)]]

\* C28: createFromTemplate(template, context) hands to create a copy of the
\* template in which every #{key} with a key of the context is replaced by
\* context[key] in every string at any depth, fields of objects and items of
\* arrays alike, the other placeholders staying as they are.
C28_Original ==
    flast.op = "createFromTemplate"
      => flast.definition = SubstitutedDeep(flast.template, flast.context)

\* the keys whose value in the context differs before and after the step
ChangedKeys ==
    {k \in Range(ObjectKeys(context)) \cup Range(ObjectKeys(context')) :
        \/ hasKey(context, k) # hasKey(context', k)
        \/ hasKey(context, k) /\ Get(context, k) # Get(context', k)}

\* no entry of the cache differs from what its text renders to against ctx
NoStaleEntry(cache, ctx) ==
    \A i \in 1..Len(cache) :
       cache[i].value
         = replacePlaceholders(cache[i].key.text, PutAll(ctx, cache[i].key.hash))

\* C29: a setContext, updateContext or clearContext call that changes a
\* watched key runs the callback of the watcher once, with the changed keys
\* and the context that has the new values, the stale entries of the cache
\* being gone by then; a call that changes no watched key does not run it,
\* and a watcher that was unwatched is not run.
C29_Original ==
    [][rlast'.op \in {"setContext", "updateContext", "clearContext"}
         => /\ \A i \in 1..Len(watchers) :
                  LET mine == SelectSeq(notified', LAMBDA n : n.id = watchers[i].id)
                  IN IF \E k \in Range(watchers[i].keys) : k \in ChangedKeys
                     THEN /\ Len(mine) = 1
                          /\ mine[1].callback = watchers[i].callback
                          /\ Range(mine[1].changedKeys) = ChangedKeys
                          /\ mine[1].context = context'
                          /\ NoStaleEntry(mine[1].cache, context')
                     ELSE mine = <<>>
            /\ \A j \in 1..Len(notified') :
                  \E i \in 1..Len(watchers) : watchers[i].id = notified'[j].id]_vars

\* the control has the UID a generator gave it
Generated(c) == ctl[c].UID \notin UIDs

\* C27: two live controls whose definitions carried no UID have different
\* UIDs, and a generated UID is not the UID of a rendered live control.
C27_Original ==
    \A c1, c2 \in 1..Len(ctl) :
       ( /\ c1 # c2
         /\ c1 \notin destroyed /\ c2 \notin destroyed
         /\ Generated(c1)
         /\ Generated(c2) \/ ctl[c2].element # 0 )
         => ctl[c1].UID # ctl[c2].UID

\* C33: EventHandler.cleanup() removes the registry entries of exactly the
\* nodes that are no longer attached to the document and returns their number;
\* the entries of attached nodes stay in place
C33_Original ==
    [][EventHandlerCleanup =>
         LET detached == {uid \in DOMAIN eventRegistry :
                             ~isAttached(nodes, regNode[uid])}
         IN /\ DOMAIN eventRegistry' = DOMAIN eventRegistry \ detached
            /\ \A uid \in DOMAIN eventRegistry' :
                  eventRegistry'[uid] = eventRegistry[uid]
            /\ elast'.returned = Cardinality(detached)]_vars

\* C35: for a rendered, visible and enabled control, hide() followed by show()
\* and disable() followed by enable() give back the flags visible and disabled
\* and the element's display style, disabled attribute and classes, for the
\* base class and for the classes that set a display style of their own
C35_Original ==
    [][\A c \in 1..Len(ctl) :
          (/\ clast.c = c /\ clast'.c = c
           /\ <<clast.op, clast'.op>> \in {<<"hide", "show">>, <<"disable", "enable">>}
           /\ clast.wasRendered
           /\ clast.lookBefore.visible /\ ~clast.lookBefore.disabled)
            => LookOf(ctl', nodes', c) = clast.lookBefore]_vars

\* the callbacks c.setState had notified, in the order of the calls
NotifiedBy(tr) ==
    LET told == SelectSeq(tr, LAMBDA step : step.ev = "notify")
    IN [i \in 1..Len(told) |-> told[i].h]

\* C36: Control.setState changes nothing in the store: the store's map, with
\* the value under the control's UID, its history log and its subscriber
\* lists stay as they are, and the subscribers it invokes are the per-key
\* subscribers of the control's UID, no global subscriber among them
C36_SetStateLeavesStore ==
    [][\A c \in 1..Len(ctl), newState \in Partials :
          SetState(c, newState)
            => /\ state' = state
               /\ Get(state', ctl[c].UID) = Get(state, ctl[c].UID)
               /\ history' = history
               /\ globalListeners' = globalListeners
               /\ listeners' = listeners
               /\ NotifiedBy(trace') = listeners[ctl[c].UID]]_vars

\* the store has a value under the control's UID, a history and a global
\* subscriber, and setState of the control has called a per-key subscriber
C36_Witness ==
    /\ clast.op = "setState"
    /\ hasKey(state, ctl[clast.c].UID)
    /\ history # <<>>
    /\ globalListeners # <<>>
    /\ NotifiedBy(trace) # <<>>

\* C37: DomUtilities.getUID returns for every document: every retry appends
\* further digits, it returns after at most as many collisions as attached
\* nodes have an id, and the id it returns is the id of no attached node
C37_GetUIDReturnsFreshId ==
    flast.op = "getUID"
      => /\ flast.returned
         /\ flast.collisions <= Cardinality(flast.ids)
         /\ flast.uid \notin flast.ids

\* getUID ran in a document where its first two candidates were taken
C37_Witness ==
    /\ flast.op = "getUID"
    /\ flast.returned
    /\ flast.collisions = 2
    /\ Cardinality(flast.ids) = 3

\* a value that is present and is not a positive integer
NotPositiveInteger(v) == v.present /\ (v.twice % 2 # 0 \/ v.twice < 2)
PositiveInteger(v) == v.present /\ v.twice % 2 = 0 /\ v.twice >= 2

\* C38: validateControlDefinition reports an error for every grid-layout
\* definition whose style.rows or style.columns is present and is not a
\* positive integer (zero, negative, not an integer), and a warning, no error,
\* when both are positive integers and there are more children than cells
C38_Original ==
    (flast.op = "validateDefinition" /\ flast.def.type = "grid-layout"
     /\ flast.def.style.present)
      => LET rows == flast.def.style.rows
             columns == flast.def.style.columns
             result == flast.made.validation
         IN /\ (NotPositiveInteger(rows) \/ NotPositiveInteger(columns))
                 => (~result.isValid /\ result.errors # <<>>)
            /\ (/\ PositiveInteger(rows) /\ PositiveInteger(columns)
                /\ 4 * Len(flast.def.children) > rows.twice * columns.twice)
                 => /\ result.isValid /\ result.errors = <<>>
                    /\ \E i \in 1..Len(result.warnings) :
                          result.warnings[i].msg = "Grid has more children than cells"

\* the text holds the key k in one of the three placeholder forms
References(text, k) ==
    \E j \in 1..Len(text) :
        text[j].kind \in {"#{key}", "${key}", "{{key}}"} /\ text[j].key = k

\* the step removes the entries that reference a changed key and keeps every
\* other entry, in the order they had
RemovesOnlyReferencing ==
    renderCache' = SelectSeq(renderCache,
                             LAMBDA entry : \A k \in ChangedKeys :
                                               ~References(entry.key.text, k))

\* rendering a text that is not cached adds it at the end, after the entry
\* inserted earliest was evicted if the cache was full
EvictsEarliest ==
    (/\ rlast'.op = "render" /\ cacheEnabled
     /\ ~hasKey(renderCache, createCacheKey(rlast'.text, rlast'.extra)))
      => renderCache' =
            Append(IF Len(renderCache) >= maxCacheSize THEN Tail(renderCache)
                   ELSE renderCache,
                   Entry(createCacheKey(rlast'.text, rlast'.extra), rlast'.ret))

C23_Original ==
    \A u \in DOMAIN eventRegistry :
       \E e \in DOMAIN eventRegistry[u] :
          \E sel \in DOMAIN eventRegistry[u][e] : eventRegistry[u][e][sel] # <<>>

\* the wrapper is among the handlers of the registry
InRegistry(id) ==
    \E u \in DOMAIN eventRegistry :
       \E e \in DOMAIN eventRegistry[u] :
          \E k \in DOMAIN eventRegistry[u][e] : id \in Range(eventRegistry[u][e][k])

\* C20: a handler registered with one, or with on and oneOff = true, delegated
\* or not, is invoked for the first matching dispatch only; once invoked it is
\* neither among the listeners of its element nor in the registry.
C20_Original ==
    \A id \in DOMAIN wrappers :
       wrappers[id].bound.oneOff = "true"
         => /\ elast.calls[id] <= 1
            /\ elast.calls[id] = 1
                 => /\ id \notin Range(ListenersOf(domListeners, wrappers[id].element))
                    /\ ~InRegistry(id)

====
